---- MODULE Spec2Model ----
(***************************************************************************)
(* Listing-scraper service: the /api/listing handler with its result       *)
(* cache, in-flight map, admission gate and hard timeouts                  *)
(* (src/unnamed/part_002, and the first variant of src/server.js), and the *)
(* per-host gates of the fresh/stale variant (src/unnamed/part_001).       *)
(* Four further parts are modelled on their own: the shared browser and    *)
(* the pages of the Playwright fetches, the tier orchestrators with the    *)
(* parsers, the handler of the fresh/stale variant with its background     *)
(* refresh, and the text helpers (cache key, money, fees, area).           *)
(*                                                                         *)
(* Text is a sequence of tokens; " " is the whitespace token.  Time is in  *)
(* milliseconds; the clock is kept through the differences the code takes  *)
(* of it: the age Date.now() - ts of a cache entry, the time since a timer *)
(* was armed, the time since a request arrived.  One step of the model is one task of the Node.js event   *)
(* loop (a request arriving, a timer firing, an I/O completion) together   *)
(* with the promise reactions it triggers, except that the continuation of *)
(* a queued acquire() is kept as a step of its own (Resume): no other task *)
(* runs while such a continuation is pending.                              *)
(***************************************************************************)
EXTENDS Integers, Sequences, FiniteSets, TLC

\* ------------------------------------------------------------ bounds
MaxRequests == 3        \* requests that arrive in one run
MaxSameKey == 4         \* requests that arrive in a run whose requests share one key
Quantum == 30000        \* a step of the clock while a request is pending
MaxTasks == 3           \* extractions of the per-host variant in one run
MaxFetches == 2         \* Playwright fetches in one run
MaxRefreshRequests == 4 \* requests that arrive at the fresh/stale variant in one run

\* ------------------------------------------------------------ program constants
CACHE_TTL_MS == 6 * 60 * 60 * 1000
ScrapeGateMax == 1
HostGateMax == 2

Variants == {"part_002", "server_js_1"}

\* The outer timeout of the extraction, per variant and source.
ScrapeTimeoutMs(v, src) ==
  IF v = "server_js_1"
  THEN (IF src = "centris" THEN 38000 ELSE 36000)
  ELSE IF v = "part_001"
  THEN (IF src = "centris" THEN 18000 ELSE 14000)
  ELSE 42000

\* A waiter given the extraction's own timeout.
INFLIGHT_TIMEOUT_MS_AsOuter == ScrapeTimeoutMs("part_002", "centris")

\* withHardTimeout(existing, 30000, "inflight timeout")
INFLIGHT_TIMEOUT_MS == 30000

\* ------------------------------------------------------------ text helpers
Max(a, b) == IF a >= b THEN a ELSE b

RECURSIVE DropLeadingSpace(_)
DropLeadingSpace(s) ==
  IF s # <<>> /\ Head(s) = " " THEN DropLeadingSpace(Tail(s)) ELSE s

RECURSIVE DropTrailingSpace(_)
DropTrailingSpace(s) ==
  IF s # <<>> /\ s[Len(s)] = " "
  THEN DropTrailingSpace(SubSeq(s, 1, Len(s) - 1))
  ELSE s

\* String.prototype.trim
Trim(s) == DropTrailingSpace(DropLeadingSpace(s))

RECURSIVE CollapseSpace(_)
CollapseSpace(s) ==
  IF Len(s) < 2 THEN s
  ELSE IF s[1] = " " /\ s[2] = " " THEN CollapseSpace(Tail(s))
  ELSE <<Head(s)>> \o CollapseSpace(Tail(s))

cleanText(s) == Trim(CollapseSpace(s))

\* toLowerCase, token by token
LowerToken(t) ==
  CASE t = "CENTRIS.CA" -> "centris.ca"
    [] t = "DuProprio.com" -> "duproprio.com"
    [] t = "Rue" -> "rue"
    [] t = "Street" -> "street"
    [] t = "Discover" -> "discover"
    [] OTHER -> t

Includes(s, tok) == \E i \in 1..Len(s) : s[i] = tok
IncludesLower(s, tok) == \E i \in 1..Len(s) : LowerToken(s[i]) = tok

makeCacheKey(url, addressHint) == url \o <<"::hint=">> \o Trim(addressHint)

\* A detector that takes every URL it does not know for a Centris listing.
detectSource_DefaultCentris(url) ==
  IF IncludesLower(url, "duproprio.com") THEN "duproprio" ELSE "centris"

detectSource(url) ==
  IF IncludesLower(url, "centris.ca") THEN "centris"
  ELSE IF IncludesLower(url, "duproprio.com") THEN "duproprio"
  ELSE "unknown"

\* ------------------------------------------------------------ address validation
DigitTokens == {"12", "500", "1234"}
StreetWords == {"rue", "avenue", "street", "road", "drive", "boulevard"}
MarketingWords == {"discover", "for sale", "take a look", "invites you", "commission-free"}

CountToken(s, tok) == Cardinality({i \in 1..Len(s) : s[i] = tok})
WordCount(s) == Cardinality({i \in 1..Len(s) : s[i] # " "})

looksLikeRealAddress(s) ==
  LET t == cleanText(s) IN
    /\ t # <<>>
    /\ ~Includes(t, "!")
    /\ ~Includes(t, "?")
    /\ CountToken(t, ".") < 2
    /\ \E i \in 1..Len(t) : t[i] \in DigitTokens
    /\ \E i \in 1..Len(t) : LowerToken(t[i]) \in StreetWords
    /\ WordCount(t) <= 18
    /\ ~\E i \in 1..Len(t) : LowerToken(t[i]) \in MarketingWords

\* A validator that passes every scraped address that is not blank.
sanitizeAddressOrBlank_NoCheck(s) == cleanText(s)

sanitizeAddressOrBlank(s) ==
  LET t == cleanText(s) IN IF looksLikeRealAddress(t) THEN t ELSE <<>>

\* ------------------------------------------------------------ listings
NA == <<"N/A">>          \* the sentinel of part_002 and server.js
NoNumber == -1           \* null in a numeric field
NoText == <<"null">>     \* null in a text field
NoListing == [none |-> TRUE]

RealAddress == <<"12", " ", "Rue", " ", "A">>
PromoAddress == <<"Discover", " ", "this", " ", "condo", "!">>
HintAddress == <<"500", " ", "Main", " ", "Street">>

Listing(url, source, address, price, beds, baths, area, condoFees) ==
  [url |-> url, source |-> source, address |-> address, price |-> price,
   beds |-> beds, baths |-> baths, levels |-> NoNumber, area |-> area,
   condoFees |-> condoFees, contact |-> NA]

\* What the parsers can hand back for a page: every field is either its
\* sentinel/null or a value.  One record per field that alone holds a value,
\* the record with none, the record with all, and the area text "N/A".
ParsedListings(url, source) ==
  { Listing(url, source, <<>>, NA, NoNumber, NoNumber, NoText, NA),
    Listing(url, source, PromoAddress, <<"$450,000">>, NoNumber, NoNumber, NoText, NA),
    Listing(url, source, <<>>, NA, 2, NoNumber, NoText, NA),
    Listing(url, source, <<>>, NA, NoNumber, 1, NoText, NA),
    Listing(url, source, <<>>, NA, NoNumber, NoNumber, <<"912", " ", "ft2">>, NA),
    Listing(url, source, <<>>, NA, NoNumber, NoNumber, NA, NA),
    Listing(url, source, PromoAddress, NA, NoNumber, NoNumber, NoText, <<"$250", " ", "/", " ", "month">>),
    Listing(url, source, RealAddress, <<"$450,000">>, 2, 1, <<"912", " ", "ft2">>, <<"$250", " ", "/", " ", "month">>) }

\* The test scrapeDuProprio applies to a parsed record before returning it.
DuProprioAccepts(parsed) ==
  parsed.price # NA \/ parsed.beds # NoNumber \/ parsed.area # NoText

\* The records scrapeCentris / scrapeDuProprio can resolve with.
ScrapeResults(src, url) ==
  IF src = "centris"
  THEN ParsedListings(url, "Centris")
  ELSE {l \in ParsedListings(url, "DuProprio") : DuProprioAccepts(l)}

\* A handler that caches whatever the scrape returned.
looksGood_Always(v, finalListing) == TRUE

\* "Don't cache garbage results"
looksGood(v, finalListing) ==
  \/ finalListing.price # NA
  \/ finalListing.beds # NoNumber
  \/ finalListing.baths # NoNumber
  \/ (finalListing.area # NoText /\ finalListing.area # <<>> /\ finalListing.area # NA)
  \/ (v = "part_002" /\ finalListing.condoFees # <<>> /\ finalListing.condoFees # NA)

\* An address fallback without the sentinel.
FinalAddress_NoSentinel(listing, addressHint) ==
  LET safeScraped == sanitizeAddressOrBlank(listing.address) IN
    IF safeScraped # <<>> THEN safeScraped ELSE cleanText(addressHint)

\* sanitizeAddressOrBlank(listing.address) || cleanText(addressHint) || "N/A"
FinalAddress(listing, addressHint) ==
  LET safeScraped == sanitizeAddressOrBlank(listing.address) IN
    IF safeScraped # <<>> THEN safeScraped
    ELSE IF cleanText(addressHint) # <<>> THEN cleanText(addressHint)
    ELSE NA

\* A fallback step that also resets the contact.
FinalListing_ResetsContact(listing, addressHint) ==
  [listing EXCEPT !.address = FinalAddress(listing, addressHint), !.contact = NA]

\* { ...listing, address: finalAddress }
FinalListing(listing, addressHint) ==
  [listing EXCEPT !.address = FinalAddress(listing, addressHint)]

\* ------------------------------------------------------------ parsers
\* The characters a number is written with.
DigitChars == <<"0", "1", "2", "3", "4", "5", "6", "7", "8", "9">>
DigitChar(d) == DigitChars[d + 1]

\* The number a token's digits spell, and how many digits the token has
\* (none for a token without a digit).
TokenValue(t) ==
  CASE t \in {"$450,000", "450000"} -> 450000
    [] t = "$3,000" -> 3000
    [] t = "$1,500" -> 1500
    [] t = "1199" -> 1199
    [] t = "1200" -> 1200
    [] t \in {"977", "(977"} -> 977
    [] t = "912" -> 912
    [] t = "$250" -> 250
    [] t \in {"0", "1", "2", "3", "4", "5", "6", "7", "8", "9"} ->
         (CHOOSE d \in 0..9 : DigitChar(d) = t)
    [] OTHER -> 0

TokenDigits(t) ==
  CASE t \in {"$450,000", "450000"} -> 6
    [] t \in {"$3,000", "$1,500", "1199", "1200"} -> 4
    [] t \in {"977", "(977", "912", "$250"} -> 3
    [] t \in {"0", "1", "2", "3", "4", "5", "6", "7", "8", "9"} -> 1
    [] OTHER -> 0

RECURSIVE Pow10(_)
Pow10(k) == IF k = 0 THEN 1 ELSE 10 * Pow10(k - 1)

\* s.replace(/[^0-9.]/g, "") without its dots: the digits of the text, put
\* together, as a number and as a count.
RECURSIVE DigitsValue(_)
DigitsValue(s) ==
  IF s = <<>> THEN 0
  ELSE DigitsValue(SubSeq(s, 1, Len(s) - 1)) * Pow10(TokenDigits(s[Len(s)]))
         + TokenValue(s[Len(s)])

RECURSIVE DigitsCount(_)
DigitsCount(s) == IF s = <<>> THEN 0 ELSE TokenDigits(Head(s)) + DigitsCount(Tail(s))

\* Number(String(s || "").replace(/[^0-9.]/g, "")), null when it is not
\* finite.  Number("") is 0; "." alone and a text with two dots are NaN; a dot
\* after the last digit leaves the number whole.  The texts of the model
\* write no fraction (no digit follows a dot).
moneyToNumber(s) ==
  LET dots == CountToken(s, ".")
      dot == CHOOSE i \in 1..Len(s) : s[i] = "."
  IN CASE dots = 0 -> DigitsValue(s)
       [] dots >= 2 -> NoNumber
       [] dots = 1 /\ DigitsCount(s) = 0 -> NoNumber
       [] dots = 1 /\ DigitsCount(s) > 0 /\ DigitsCount(SubSeq(s, dot + 1, Len(s))) = 0 ->
            DigitsValue(s)

\* The digits of n, grouped by three with commas.
RECURSIVE Grouped(_)
Grouped(n) ==
  IF n < 10 THEN <<DigitChar(n)>>
  ELSE IF n < 100 THEN <<DigitChar(n \div 10), DigitChar(n % 10)>>
  ELSE IF n < 1000
  THEN <<DigitChar(n \div 100), DigitChar((n \div 10) % 10), DigitChar(n % 10)>>
  ELSE Grouped(n \div 1000) \o <<",">> \o
         <<DigitChar((n \div 100) % 10), DigitChar((n \div 10) % 10), DigitChar(n % 10)>>

\* A formatMoney that writes thousands ("$450K").
formatMoney_Thousands(n) ==
  IF n = NoNumber THEN NA
  ELSE IF n >= 1000 THEN <<"$">> \o Grouped(n \div 1000) \o <<"K">>
  ELSE <<"$">> \o Grouped(n)

\* n.toLocaleString("en-CA", { style: "currency", currency: "CAD",
\* maximumFractionDigits: 0 }) of a whole amount, character by character;
\* "N/A" when n is not a finite number.
formatMoney(n) == IF n = NoNumber THEN NA ELSE <<"$">> \o Grouped(n)

\* Math.round(n / 12)
RoundTwelfth(n) == (n + 6) \div 12

MoneyTokens == {"$450,000", "$3,000", "$1,500", "$250"}

\* t.match(/\$\s*[\d\s,]{3,}/): the first amount of the text, or "".
RECURSIVE extractMoneyFromText(_)
extractMoneyFromText(s) ==
  LET t == cleanText(s) IN
    IF t = <<>> THEN <<>>
    ELSE IF Head(t) \in MoneyTokens THEN <<Head(t)>>
    ELSE extractMoneyFromText(Tail(t))

\* /\/\s*month/i or /\bmonthly\b/i, /\/\s*year/i or /\byearly\b/i or /\byear\b/i
SaysMonthly(t) ==
  \/ \E i \in 1..Len(t) : LowerToken(t[i]) \in {"/month", "monthly"}
  \/ \E i \in 1..Len(t) - 1 : t[i] = "/" /\ LowerToken(t[i + 1]) \in {"month", "months"}
  \/ \E i \in 1..Len(t) - 2 :
       t[i] = "/" /\ t[i + 1] = " " /\ LowerToken(t[i + 2]) \in {"month", "months"}

SaysYearly(t) ==
  \E i \in 1..Len(t) : LowerToken(t[i]) \in {"/year", "year", "yearly"}

\* A fee normalizer that converts a yearly or large amount and keeps its
\* "/ year".
ensureMonthlyFeesString_KeepsUnit(raw) ==
  LET t == cleanText(raw)
      n == moneyToNumber(t)
  IN
    IF t = <<>> \/ t = NA \/ t = <<"-">> THEN NA
    ELSE IF SaysMonthly(t) THEN t
    ELSE IF n # NoNumber /\ (SaysYearly(t) \/ n >= 1200)
    THEN formatMoney(RoundTwelfth(n)) \o <<" ", "/", " ", "year">>
    ELSE t

ensureMonthlyFeesString(raw) ==
  LET t == cleanText(raw)
      n == moneyToNumber(t)
      monthly == formatMoney(RoundTwelfth(n)) \o <<" ", "/", " ", "month">>
  IN
    IF t = <<>> \/ t = NA \/ t = <<"-">> THEN NA
    ELSE IF SaysMonthly(t) THEN t
    ELSE IF SaysYearly(t) THEN (IF n # NoNumber THEN monthly ELSE t)
    ELSE IF n # NoNumber /\ n >= 1200 THEN monthly
    ELSE t

\* [\d,]+ : a token that is a number
AreaNumbers == {"912", "977", "1,200"}

\* The first place where t matches /([\d,]+)\s*<unit>/: the index of the
\* number, 0 when there is none.
UnitMatch(t, unit) ==
  LET hits == {i \in 1..Len(t) :
                 /\ t[i] \in AreaNumbers
                 /\ \/ (i + 1 <= Len(t) /\ t[i + 1] = unit)
                    \/ (i + 2 <= Len(t) /\ t[i + 1] = " " /\ t[i + 2] = unit)}
  IN IF hits = {} THEN 0 ELSE CHOOSE i \in hits : \A j \in hits : i <= j

\* null for a blank text, "N ft2" for the first "N sqft", else for the first
\* "N ft2", else the text.
normalizeAreaToFt2(areaStr) ==
  LET t == cleanText(areaStr) IN
    IF t = <<>> THEN NoText
    ELSE IF UnitMatch(t, "sqft") # 0 THEN <<t[UnitMatch(t, "sqft")], " ", "ft2">>
    ELSE IF UnitMatch(t, "ft2") # 0 THEN <<t[UnitMatch(t, "ft2")], " ", "ft2">>
    ELSE t

\* Number(text) of a count, null when there is no text to read.
CountOrNull(text) == IF cleanText(text) = <<>> THEN NoNumber ELSE moneyToNumber(text)

\* a || b on strings
OrElse(a, b) == IF a # <<>> THEN a ELSE b

ParsedRecord(url, source, address, price, beds, baths, area, condoFees, contact) ==
  [url |-> url, source |-> source, address |-> address, price |-> price,
   beds |-> beds, baths |-> baths, levels |-> NoNumber, area |-> area,
   condoFees |-> condoFees, contact |-> contact]

\* What the selectors of parseCentrisFromHtml find in a page.
NoCentrisPage ==
  [priceText |-> <<>>, bedsText |-> <<>>, bathsText |-> <<>>, rawArea |-> <<>>,
   feeCell |-> <<>>, address |-> <<>>, agentName |-> <<>>, phone |-> <<>>]

parseCentrisFromHtml(url, page) ==
  LET m == extractMoneyFromText(page.priceText)
      price == IF m # <<>> THEN m ELSE NA
      area == IF cleanText(page.rawArea) # <<>> THEN normalizeAreaToFt2(page.rawArea) ELSE NoText
      last == cleanText(page.feeCell)
      condoFees == ensureMonthlyFeesString(IF last # <<>> THEN last ELSE NA)
      address == OrElse(cleanText(page.address), <<>>)
      agentName == cleanText(page.agentName)
      phone == cleanText(page.phone)
      contact == IF agentName # <<>> /\ phone # <<>> THEN agentName \o <<" ", "-", " ">> \o phone
                 ELSE IF agentName # <<>> THEN agentName
                 ELSE IF phone # <<>> THEN phone
                 ELSE NA
  IN ParsedRecord(url, "Centris", address, price, CountOrNull(page.bedsText),
                  CountOrNull(page.bathsText), area, condoFees, contact)

\* What the selectors of parseDuProprioFromHtml find in a page.  A
\* characteristics item that is absent is NoText; one with no number is <<>>.
NoDuProprioPage ==
  [amount |-> <<>>, metaAmount |-> <<>>, metaText |-> <<>>, bedsItem |-> NoText,
   bathsItem |-> NoText, dimItem |-> NoText, fees |-> <<>>, bodyFees |-> <<>>,
   address |-> <<>>, tel |-> <<>>]

\* Number(number.replace(/[^\d.]/g, "")) of an item that is present.
ItemCount(item) == IF item = NoText THEN NoNumber ELSE moneyToNumber(item)

parseDuProprioFromHtml(url, page) ==
  LET p1 == OrElse(cleanText(page.amount), NA)
      p2 == IF p1 = NA /\ cleanText(page.metaAmount) # <<>>
            THEN formatMoney(moneyToNumber(cleanText(page.metaAmount))) ELSE p1
      p3 == IF p2 = NA /\ extractMoneyFromText(cleanText(page.metaText)) # <<>>
            THEN extractMoneyFromText(cleanText(page.metaText)) ELSE p2
      area0 == IF page.dimItem = NoText THEN NoText ELSE normalizeAreaToFt2(page.dimItem)
      area == IF area0 # NoText THEN normalizeAreaToFt2(area0) ELSE NoText
      f1 == OrElse(cleanText(page.fees), NA)
      f2 == IF f1 = NA /\ extractMoneyFromText(page.bodyFees) # <<>>
            THEN extractMoneyFromText(page.bodyFees) ELSE f1
      tel == cleanText(page.tel)
  IN ParsedRecord(url, "DuProprio", OrElse(cleanText(page.address), <<>>), p3,
                  ItemCount(page.bedsItem), ItemCount(page.bathsItem), area,
                  ensureMonthlyFeesString(f2), IF tel # <<>> THEN tel ELSE NA)

\* payload.data of fetchDuProprioStructuredPlaywright.
NoStructured ==
  [domPriceText |-> <<>>, metaAmount |-> <<>>, weakPrice |-> <<>>, bedsText |-> <<>>,
   bathsText |-> <<>>, dimText |-> <<>>, condoFeesText |-> <<>>]

parseDuProprioFromStructured(url, structured) ==
  LET p1 == OrElse(cleanText(structured.domPriceText), NA)
      p2 == IF p1 = NA /\ cleanText(structured.metaAmount) # <<>>
            THEN formatMoney(moneyToNumber(cleanText(structured.metaAmount))) ELSE p1
      p3 == IF p2 = NA /\ cleanText(structured.weakPrice) # <<>>
            THEN cleanText(structured.weakPrice) ELSE p2
      d1 == cleanText(structured.dimText)
      c1 == OrElse(cleanText(structured.condoFeesText), NA)
      c2 == IF c1 # NA /\ ~(\E i \in 1..Len(c1) : c1[i] \in MoneyTokens)
               /\ extractMoneyFromText(c1) # <<>>
            THEN extractMoneyFromText(c1) ELSE c1
      r == ParsedRecord(url, "DuProprio", <<>>, p3, CountOrNull(structured.bedsText),
                        CountOrNull(structured.bathsText),
                        IF d1 # <<>> THEN normalizeAreaToFt2(d1) ELSE NoText,
                        ensureMonthlyFeesString(c2), NA)
  IN [k \in DOMAIN r \cup {"_diag"} |-> IF k = "_diag" THEN <<"diag">> ELSE r[k]]

\* The pages and payloads a fetch can bring back: nothing found, one thing
\* found, everything found.
YearlyFees == <<"$3,000", " ", "/", " ", "year">>
MonthlyFees == <<"$250", " ", "/", " ", "month">>

CentrisPages ==
  { NoCentrisPage,
    [NoCentrisPage EXCEPT !.priceText = <<"Price", " ", "on", " ", "request">>],
    [NoCentrisPage EXCEPT !.priceText = <<" ", "$450,000", " ">>],
    [NoCentrisPage EXCEPT !.bedsText = <<"2">>],
    [NoCentrisPage EXCEPT !.rawArea = <<"912", " ", "sqft">>],
    [NoCentrisPage EXCEPT !.rawArea = NA],
    [NoCentrisPage EXCEPT !.feeCell = YearlyFees, !.address = PromoAddress],
    [NoCentrisPage EXCEPT !.feeCell = <<"-">>, !.phone = <<"514-555-0100">>],
    [priceText |-> <<"$450,000">>, bedsText |-> <<"2">>, bathsText |-> <<"1">>,
     rawArea |-> <<"912", " ", "ft2">>, feeCell |-> MonthlyFees, address |-> RealAddress,
     agentName |-> <<"Agent">>, phone |-> <<"514-555-0100">>] }

DuProprioPages ==
  { NoDuProprioPage,
    [NoDuProprioPage EXCEPT !.amount = <<"$450,000">>],
    [NoDuProprioPage EXCEPT !.metaAmount = <<"450000">>],
    [NoDuProprioPage EXCEPT !.metaText = <<"Condo", " ", "$450,000">>, !.tel = <<"514-555-0100">>],
    [NoDuProprioPage EXCEPT !.bedsItem = <<"2">>],
    [NoDuProprioPage EXCEPT !.bathsItem = <<"1">>],
    [NoDuProprioPage EXCEPT !.dimItem = <<"912", " ", "sqft">>],
    [NoDuProprioPage EXCEPT !.dimItem = <<" ">>, !.address = PromoAddress],
    [NoDuProprioPage EXCEPT !.fees = <<"$1,500">>],
    [NoDuProprioPage EXCEPT !.bodyFees = <<"condo", " ", "fees", " ", "$250">>],
    [amount |-> <<"$450,000">>, metaAmount |-> <<>>, metaText |-> <<>>, bedsItem |-> <<"2">>,
     bathsItem |-> <<"1">>, dimItem |-> <<"912", " ", "ft2">>, fees |-> MonthlyFees,
     bodyFees |-> <<>>, address |-> RealAddress, tel |-> <<"514-555-0100">>] }

StructuredPayloads ==
  { NoStructured,
    [NoStructured EXCEPT !.domPriceText = <<"$450,000">>],
    [NoStructured EXCEPT !.metaAmount = <<"450000">>],
    [NoStructured EXCEPT !.weakPrice = <<"$450,000">>],
    [NoStructured EXCEPT !.bedsText = <<"2">>],
    [NoStructured EXCEPT !.bathsText = <<"1">>],
    [NoStructured EXCEPT !.dimText = <<"912", " ", "sqft">>],
    [NoStructured EXCEPT !.condoFeesText = <<"fees", " ", "$250", " ", "monthly">>],
    [NoStructured EXCEPT !.condoFeesText = <<" ">>] }

\* ------------------------------------------------------------ maps
MapSet(m, k, v) == [x \in DOMAIN m \cup {k} |-> IF x = k THEN v ELSE m[x]]
MapDelete(m, k) == [x \in DOMAIN m \ {k} |-> m[x]]
EmptyMap == [x \in {} |-> 0]

\* ------------------------------------------------------------ cache
\* An entry { ts, data } is kept as [age, data], age being Date.now() - ts.
\* Every age above the TTL reads alike, so ages stop at CACHE_TTL_MS + 1.
getCached_NoExpiry(c, key) ==
  IF key \notin DOMAIN c THEN [ret |-> NoListing, cache |-> c]
  ELSE [ret |-> c[key].data, cache |-> c]

getCached(c, key) ==
  IF key \notin DOMAIN c THEN [ret |-> NoListing, cache |-> c]
  ELSE IF c[key].age > CACHE_TTL_MS
       THEN [ret |-> NoListing, cache |-> MapDelete(c, key)]
       ELSE [ret |-> c[key].data, cache |-> c]

setCached(c, key, data) == MapSet(c, key, [age |-> 0, data |-> data])

Min(a, b) == IF a <= b THEN a ELSE b

Aged(c, d) ==
  [k \in DOMAIN c |-> [c[k] EXCEPT !.age = Min(c[k].age + d, CACHE_TTL_MS + 1)]]

\* ------------------------------------------------------------ semaphore
\* createSemaphore(max): acquire() up to its await, release(), and the
\* continuation of a queued acquire() after its promise was resolved.
NewGate == [active |-> 0, queue |-> <<>>]

\* A semaphore whose acquire() never waits.
acquire_NoLimit(g, max, id) ==
  [gate |-> [g EXCEPT !.active = g.active + 1], granted |-> TRUE]

acquire(g, max, id) ==
  IF g.active < max
  THEN [gate |-> [g EXCEPT !.active = g.active + 1], granted |-> TRUE]
  ELSE [gate |-> [g EXCEPT !.queue = Append(g.queue, id)], granted |-> FALSE]

\* A release() that wakes the waiter that came last.
release_Lifo(g) ==
  [gate |-> [active |-> Max(0, g.active - 1),
             queue |-> IF g.queue = <<>> THEN <<>> ELSE SubSeq(g.queue, 1, Len(g.queue) - 1)],
   next |-> IF g.queue = <<>> THEN 0 ELSE g.queue[Len(g.queue)]]

release(g) ==
  [gate |-> [active |-> Max(0, g.active - 1),
             queue |-> IF g.queue = <<>> THEN <<>> ELSE Tail(g.queue)],
   next |-> IF g.queue = <<>> THEN 0 ELSE Head(g.queue)]

acquireResumed(g) == [g EXCEPT !.active = g.active + 1]

\* ------------------------------------------------------------ state
VARIABLES
  variant,    \* which source file runs: "part_002", "server_js_1" or "part_001"
  inputs,     \* the requests a run draws from, and how many arrive
  cache,      \* Map key -> [age, data]
  inflight,   \* Map key -> the extraction whose promise is the ticket
  scrapeGate, \* the semaphore of part_002 / server.js: [active, queue]
  woken,      \* extractions whose acquire() was resolved and has not resumed
  reqs,       \* the requests being handled
  ext,        \* the extractions (the promise p of a handler), by initiating request
  resp,       \* the responses sent by the last step
  late,       \* what a scrape abandoned by its outer timeout produced in the last step
  nextId,     \* the next request's number
  gates,      \* part_001: Map host -> semaphore
  tasks,      \* part_001: the extractions, by number
  hostWoken,  \* part_001: extractions whose acquire() was resolved and has not resumed
  browser,    \* the module variable browser: 0 (unset) or the browser it refers to
  context,    \* the module variable context: 0 (unset) or the browser that owns it
  launched,   \* the browser processes that chromium.launch has started
  calls,      \* the warm-up and the Playwright fetches: where each one is
  pages,      \* the fetches whose page is open
  abandoned,  \* the fetches whose scrape has lost its outer timeout
  scrape,     \* one run of an orchestrator: its stage, the tiers tried, its outcome
  cache1,     \* part_001: Map key -> age of the entry
  inflight1,  \* part_001: Map key -> the extraction whose promise is the ticket
  reqs1,      \* part_001: the requests
  probe,      \* the helper called last, with its arguments and what it returned
  shut        \* shutdown(): where it is, the browsers it has closed, what it closed in order

vars002 == <<cache, inflight, scrapeGate, woken, reqs, ext, resp, late, nextId>>
vars001 == <<gates, tasks, hostWoken>>
varsRefresh == <<cache1, inflight1, reqs1>>
varsBrowser == <<browser, context, launched, calls, pages, abandoned, shut>>
vars == <<variant, inputs, cache, inflight, scrapeGate, woken, reqs, ext, resp, late, nextId,
          gates, tasks, hostWoken, browser, context, launched, calls, pages, abandoned,
          scrape, cache1, inflight1, reqs1, probe, shut>>

Ids == 1..Max(MaxRequests, MaxSameKey)

\* ------------------------------------------------------------ request inputs
CentrisUrl == <<"https://", "www.", "centris.ca", "/condo/1">>
DuProprioUrl == <<"https://", "duproprio.com", "/condo/2">>
OtherUrl == <<"https://", "example.com", "/condo/3">>

Query(url, addressHint, refresh) == [url |-> url, addressHint |-> addressHint, refresh |-> refresh]

\* The query strings of a run: no url, a blank url, an unknown site, and a
\* listing of each site, one of them with a hint, with and without refresh=1.
Queries ==
  { Query(<<>>, <<>>, <<>>),
    Query(<<" ">>, <<>>, <<>>),
    Query(OtherUrl, <<>>, <<>>),
    Query(CentrisUrl, <<>>, <<>>),
    Query(CentrisUrl, <<>>, <<"1">>),
    Query(DuProprioUrl \o <<" ">>, HintAddress \o <<" ">>, <<>>),
    Query(DuProprioUrl, HintAddress, <<" ", "1">>) }

\* The query strings of a run whose requests all have one key.
SameKeyQueries ==
  { Query(CentrisUrl, <<>>, <<>>), Query(CentrisUrl, <<>>, <<"1">>) }

NoReq ==
  [st |-> "none", url |-> <<>>, hint |-> <<>>, refresh |-> FALSE, key |-> <<>>,
   elapsed |-> 0, ticket |-> 0, evicted |-> FALSE]

NoExt ==
  [phase |-> "none", key |-> <<>>, src |-> "", ran |-> 0, inner |-> "none",
   url |-> <<>>, hint |-> <<>>]

NoLate == [key |-> <<>>, hint |-> <<>>, listing |-> NoListing]

Response(role, status, listing, cachedFlag, deduped, error, r) ==
  [role |-> role, status |-> status, ok |-> (status = 200), listing |-> listing,
   cached |-> cachedFlag, deduped |-> deduped, error |-> error,
   url |-> r.url, refresh |-> r.refresh, key |-> r.key, evicted |-> r.evicted,
   ticket |-> r.ticket, latency |-> r.elapsed]

Pending(r) == reqs[r].st # "none"
Unsettled(e) == ext[e].phase \in {"queued", "woken", "running"}
Busy == \E r \in Ids : Pending(r)

\* ------------------------------------------------------------ init
Init002 ==
  /\ cache = EmptyMap
  /\ inflight = EmptyMap
  /\ scrapeGate = NewGate
  /\ woken = <<>>
  /\ reqs = [r \in Ids |-> NoReq]
  /\ ext = [e \in Ids |-> NoExt]
  /\ resp = EmptyMap
  /\ late = NoLate
  /\ nextId = 1
  /\ probe = [fn |-> "none"]

Init001 ==
  /\ gates = EmptyMap
  /\ tasks = [t \in 1..Max(MaxTasks, MaxRefreshRequests) |->
                [phase |-> "idle", host |-> <<>>, kind |-> "", key |-> <<>>, src |-> "",
                 ran |-> 0]]
  /\ hostWoken = <<>>
  /\ cache1 = EmptyMap
  /\ inflight1 = EmptyMap
  /\ reqs1 = [r \in 1..MaxRefreshRequests |->
                [st |-> "none", key |-> <<>>, ticket |-> 0, elapsed |-> 0]]

\* let browser; let context; no call of ensureBrowser has been made.
InitBrowserVars ==
  /\ browser = 0
  /\ context = 0
  /\ launched = {}
  /\ calls = [c \in 0..MaxFetches |-> [pc |-> "idle", b |-> 0]]
  /\ pages = {}
  /\ abandoned = {}
  /\ shut = [pc |-> "idle", target |-> 0, closed |-> {}, order |-> <<>>]
  /\ scrape = [site |-> "", url |-> <<>>, hint |-> <<>>, stage |-> "NotStarted",
               tried |-> <<>>, ran |-> 0, handler |-> "none", record |-> NoListing,
               error |-> [label |-> "", about |-> {}], answer |-> NoListing,
               stored |-> NoListing, caller |-> "handler"]

Init ==
  /\ variant = "part_002"
  /\ inputs = [queries |-> Queries, count |-> MaxRequests]
  /\ Init002 /\ Init001 /\ InitBrowserVars

\* ------------------------------------------------------------ the handler
\* A lookup that reads the cache whatever refresh says.
LookupCached_IgnoresRefresh(refresh, c, key) == getCached(c, key)

\* const cached = !refresh ? getCached(key) : null
LookupCached(refresh, c, key) ==
  IF refresh THEN [ret |-> NoListing, cache |-> c] ELSE getCached(c, key)

\* app.get("/api/listing"): from the arrival of the request to its first
\* await (or its response, when it answers at once).
Arrive(q) ==
  /\ variant \in Variants
  /\ woken = <<>>
  /\ nextId <= inputs.count
  /\ q \in inputs.queries
  /\ LET r == nextId
         url == Trim(q.url)
         addressHint == Trim(q.addressHint)
         refresh == (Trim(q.refresh) = <<"1">>)
         src == detectSource(url)
         key == makeCacheKey(url, addressHint)
         look == LookupCached(refresh, cache, key)
         cached == look.ret
         existing == IF ~refresh /\ key \in DOMAIN inflight THEN inflight[key] ELSE 0
         me == [NoReq EXCEPT !.url = url, !.hint = addressHint, !.refresh = refresh]
         got == acquire(scrapeGate, ScrapeGateMax, r)
     IN
       /\ nextId' = r + 1
       /\ IF url = <<>>
          THEN /\ resp' = (r :> Response("rejected", 400, NoListing, FALSE, FALSE,
                                         "Missing url parameter.", me))
               /\ UNCHANGED <<cache, inflight, scrapeGate, reqs, ext>>
          ELSE IF src = "unknown"
          THEN /\ resp' = (r :> Response("rejected", 400, NoListing, FALSE, FALSE,
                                         "Unknown listing source.", me))
               /\ UNCHANGED <<cache, inflight, scrapeGate, reqs, ext>>
          ELSE IF cached # NoListing
          THEN /\ resp' = (r :> Response("cache", 200, cached, TRUE, FALSE, "",
                                         [me EXCEPT !.key = key]))
               /\ cache' = look.cache
               /\ UNCHANGED <<inflight, scrapeGate, reqs, ext>>
          ELSE IF existing # 0
          THEN /\ reqs' = [reqs EXCEPT ![r] =
                             [me EXCEPT !.st = "waiter", !.key = key, !.ticket = existing,
                                        !.evicted = (look.cache # cache)]]
               /\ cache' = look.cache
               /\ resp' = EmptyMap
               /\ UNCHANGED <<inflight, scrapeGate, ext>>
          ELSE /\ reqs' = [reqs EXCEPT ![r] =
                             [me EXCEPT !.st = "initiator", !.key = key, !.ticket = r,
                                        !.evicted = (look.cache # cache)]]
               /\ cache' = look.cache
               /\ scrapeGate' = got.gate
               /\ ext' = [ext EXCEPT ![r] =
                            IF got.granted
                            THEN [phase |-> "running", key |-> key, src |-> src,
                                  ran |-> 0, inner |-> "running",
                                  url |-> url, hint |-> addressHint]
                            ELSE [phase |-> "queued", key |-> key, src |-> src,
                                  ran |-> 0, inner |-> "none",
                                  url |-> url, hint |-> addressHint]]
               /\ inflight' = MapSet(inflight, key, r)
               /\ resp' = EmptyMap
  /\ late' = NoLate
  /\ UNCHANGED <<variant, inputs, woken>>

\* A handler that leaves its ticket in the map.
inflightDone_Keep(m, key) == m

\* finally { inflight.delete(key) } of the handler that created the promise.
inflightDone(m, key) == MapDelete(m, key)

\* The promise p of extraction e settles: finally { scrapeGate.release() },
\* then the reactions of the handler that created p (its response and
\* finally { inflight.delete(key) }) and of every handler awaiting p.
Settle(e, status, listing, error, innerAfter) ==
  LET waiters == {w \in Ids : reqs[w].st = "waiter" /\ reqs[w].ticket = e}
      rel == release(scrapeGate)
  IN
    /\ scrapeGate' = rel.gate
    /\ woken' = IF rel.next = 0 THEN woken ELSE Append(woken, rel.next)
    /\ ext' = [x \in Ids |->
                 IF x = e
                 THEN (IF innerAfter = "running"
                       THEN [ext[e] EXCEPT !.phase = "settled", !.ran = 0]
                       ELSE [NoExt EXCEPT !.phase = "settled", !.inner = innerAfter])
                 ELSE IF x = rel.next THEN [ext[x] EXCEPT !.phase = "woken"]
                 ELSE ext[x]]
    /\ resp' = [r \in waiters \cup {e} |->
                  IF r = e
                  THEN Response("initiator", status, listing, FALSE, FALSE, error, reqs[r])
                  ELSE Response("waiter", status, listing, FALSE, status = 200, error,
                                reqs[r])]
    /\ reqs' = [r \in Ids |-> IF r \in waiters \cup {e} THEN NoReq ELSE reqs[r]]
    /\ inflight' = inflightDone(inflight, ext[e].key)
    /\ late' = NoLate

TimeoutLabel(src) == IF src = "centris" THEN "centris timeout" ELSE "duproprio timeout"

\* withHardTimeout(promise, ms, label): its timer fires once ms have passed
\* since the call.
hardTimeoutDue(sinceCall, ms) == sinceCall >= ms
hardTimeoutLeft(sinceCall, ms) == ms - sinceCall

\* scrapeCentris / scrapeDuProprio resolves with a record before the outer
\* timeout: address fallback, conditional caching, response.
ScrapeReturns(e, parsed) ==
  /\ variant \in Variants
  /\ woken = <<>>
  /\ ext[e].phase = "running" /\ ext[e].inner = "running"
  /\ parsed \in ScrapeResults(ext[e].src, reqs[e].url)
  /\ LET finalListing == FinalListing(parsed, reqs[e].hint) IN
       /\ cache' = IF looksGood(variant, finalListing)
                   THEN setCached(cache, ext[e].key, finalListing)
                   ELSE cache
       /\ Settle(e, 200, finalListing, "", "ended")
  /\ UNCHANGED <<variant, inputs, nextId>>

\* A handler that caches a placeholder record when the orchestrator rejects.
ScrapeThrows_CachesPlaceholder(e) ==
  /\ variant \in Variants
  /\ woken = <<>>
  /\ ext[e].phase = "running" /\ ext[e].inner = "running"
  /\ cache' = setCached(cache, ext[e].key,
                        Listing(reqs[e].url, "", NA, NA, NoNumber, NoNumber, NoText, NA))
  /\ Settle(e, 500, NoListing, "blocked/empty", "ended")
  /\ UNCHANGED <<variant, inputs, nextId>>

\* The orchestrator rejects before the outer timeout (every tier failed).
ScrapeThrows(e) ==
  /\ variant \in Variants
  /\ woken = <<>>
  /\ ext[e].phase = "running" /\ ext[e].inner = "running"
  /\ Settle(e, 500, NoListing, "blocked/empty", "ended")
  /\ UNCHANGED <<variant, inputs, cache, nextId>>

\* The timer of withHardTimeout(scrape..., 42000, ...) fires; the scrape goes on.
OuterTimeout(e) ==
  /\ variant \in Variants
  /\ woken = <<>>
  /\ ext[e].phase = "running"
  /\ hardTimeoutDue(ext[e].ran, ScrapeTimeoutMs(variant, ext[e].src))
  /\ Settle(e, 500, NoListing, TimeoutLabel(ext[e].src), "running")
  /\ UNCHANGED <<variant, inputs, cache, nextId>>

\* A scrape whose outer timeout has fired comes to its end, with a record or
\* an exception.  The await that would have received it has already thrown:
\* the rest of the try block (address fallback, looksGood, setCached) was
\* skipped, so nothing reads the outcome.
InnerEnds(e) ==
  /\ variant \in Variants
  /\ woken = <<>>
  /\ ext[e].phase = "settled" /\ ext[e].inner = "running"
  /\ \E out \in ScrapeResults(ext[e].src, ext[e].url) \cup {NoListing} :
       late' = [key |-> ext[e].key, hint |-> ext[e].hint, listing |-> out]
  /\ ext' = [ext EXCEPT ![e] = [NoExt EXCEPT !.phase = "settled", !.inner = "ended"]]
  /\ resp' = EmptyMap
  /\ UNCHANGED <<variant, inputs, cache, inflight, scrapeGate, woken, reqs, nextId>>

\* The continuation of a queued acquire(): active += 1, then the scrape starts.
Resume ==
  /\ variant \in Variants
  /\ woken # <<>>
  /\ LET e == Head(woken) IN
       /\ scrapeGate' = acquireResumed(scrapeGate)
       /\ ext' = [ext EXCEPT ![e].phase = "running", ![e].ran = 0, ![e].inner = "running"]
  /\ woken' = Tail(woken)
  /\ resp' = EmptyMap
  /\ late' = NoLate
  /\ UNCHANGED <<variant, inputs, cache, inflight, reqs, nextId>>

\* The timer of withHardTimeout(existing, 30000, "inflight timeout") fires.
WaiterTimeout(w) ==
  /\ variant \in Variants
  /\ woken = <<>>
  /\ reqs[w].st = "waiter"
  /\ hardTimeoutDue(reqs[w].elapsed, INFLIGHT_TIMEOUT_MS)
  /\ resp' = (w :> Response("waiter", 500, NoListing, FALSE, FALSE, "inflight timeout",
                            reqs[w]))
  /\ reqs' = [reqs EXCEPT ![w] = NoReq]
  /\ late' = NoLate
  /\ UNCHANGED <<variant, inputs, cache, inflight, scrapeGate, woken, ext, nextId>>

\* The time left on each armed timer.
TimersLeft ==
  {hardTimeoutLeft(reqs[w].elapsed, INFLIGHT_TIMEOUT_MS) :
      w \in {x \in Ids : reqs[x].st = "waiter"}}
    \cup {hardTimeoutLeft(ext[e].ran, ScrapeTimeoutMs(variant, ext[e].src)) :
            e \in {x \in Ids : ext[x].phase = "running"}}

\* Time passes, never past an armed timer: by a quantum or up to the next
\* timer while a request is pending, by the TTL (or just over it) otherwise.
Tick(d) ==
  /\ variant \in Variants
  /\ woken = <<>>
  /\ d > 0
  /\ \A t \in TimersLeft : d <= t
  /\ \/ Busy /\ (d = Quantum \/ d \in TimersLeft)
     \/ ~Busy /\ cache # EmptyMap /\ d \in {CACHE_TTL_MS, CACHE_TTL_MS + 1}
  /\ cache' = Aged(cache, d)
  /\ reqs' = [r \in Ids |-> IF Pending(r) THEN [reqs[r] EXCEPT !.elapsed = @ + d] ELSE reqs[r]]
  /\ ext' = [e \in Ids |-> IF ext[e].phase = "running" THEN [ext[e] EXCEPT !.ran = @ + d]
                           ELSE ext[e]]
  /\ resp' = EmptyMap
  /\ late' = NoLate
  /\ UNCHANGED <<variant, inputs, inflight, scrapeGate, woken, nextId>>

TickSteps == {Quantum, CACHE_TTL_MS, CACHE_TTL_MS + 1} \cup TimersLeft

Next002 ==
  \/ \E q \in inputs.queries : Arrive(q)
  \/ \E e \in Ids : \E parsed \in ScrapeResults(ext[e].src, reqs[e].url) : ScrapeReturns(e, parsed)
  \/ \E e \in Ids : ScrapeThrows(e)
  \/ \E e \in Ids : OuterTimeout(e)
  \/ \E e \in Ids : InnerEnds(e)
  \/ Resume
  \/ \E w \in Ids : WaiterTimeout(w)
  \/ \E d \in TickSteps : Tick(d)

\* ------------------------------------------------------------ part_001: per-host gates
Schemes == {"https://", "http://"}
PathTokens == {"/condo/1", "/condo/2", "/condo/3", "/?ref="}

RECURSIVE HostTokens(_)
HostTokens(s) ==
  IF s = <<>> \/ Head(s) \in PathTokens THEN <<>>
  ELSE <<Head(s)>> \o HostTokens(Tail(s))

\* new URL(url).host, "unknown" when the URL does not parse
hostOf(url) ==
  IF url # <<>> /\ Head(url) \in Schemes /\ HostTokens(Tail(url)) # <<>>
  THEN HostTokens(Tail(url))
  ELSE <<"unknown">>

\* getGateForUrl: the gates after the call (a host's gate is made on first use).
getGateForUrl(gs, url) ==
  IF hostOf(url) \in DOMAIN gs THEN gs ELSE MapSet(gs, hostOf(url), NewGate)

\* The listing URLs the per-host variant scrapes.
TaskUrls == {CentrisUrl, DuProprioUrl, <<"centris.ca", "/condo/1">>}

\* An extraction of part_001 (the handler's, or refreshInBackground's) starts:
\* const gate = getGateForUrl(url); await gate.acquire().
HostStart(t, url) ==
  /\ variant = "part_001"
  /\ hostWoken = <<>>
  /\ tasks[t].phase = "idle"
  /\ LET gs == getGateForUrl(gates, url)
         host == hostOf(url)
         got == acquire(gs[host], HostGateMax, t)
     IN /\ gates' = [gs EXCEPT ![host] = got.gate]
        /\ tasks' = [tasks EXCEPT ![t].phase = IF got.granted THEN "holding" ELSE "queued",
                                  ![t].host = host]
  /\ UNCHANGED <<variant, inputs, hostWoken>>

\* The extraction ends (result, error or timeout): finally { gate.release() }.
HostFinish(t) ==
  /\ variant = "part_001"
  /\ hostWoken = <<>>
  /\ tasks[t].phase = "holding"
  /\ LET host == tasks[t].host
         rel == release(gates[host])
     IN /\ gates' = [gates EXCEPT ![host] = rel.gate]
        /\ hostWoken' = IF rel.next = 0 THEN hostWoken ELSE Append(hostWoken, rel.next)
        /\ tasks' = [x \in DOMAIN tasks |->
                       IF x = t THEN [tasks[t] EXCEPT !.phase = "done"]
                       ELSE IF x = rel.next THEN [tasks[x] EXCEPT !.phase = "woken"]
                       ELSE tasks[x]]
  /\ UNCHANGED <<variant, inputs>>

\* The continuation of a queued acquire(): active += 1.
HostResume ==
  /\ variant = "part_001"
  /\ hostWoken # <<>>
  /\ LET t == Head(hostWoken)
         host == tasks[t].host
     IN /\ gates' = [gates EXCEPT ![host] = acquireResumed(gates[host])]
        /\ tasks' = [tasks EXCEPT ![t].phase = "holding"]
  /\ hostWoken' = Tail(hostWoken)
  /\ UNCHANGED <<variant, inputs>>

Next001 ==
  \/ \E t \in 1..MaxTasks, url \in TaskUrls : HostStart(t, url)
  \/ \E t \in 1..MaxTasks : HostFinish(t)
  \/ HostResume

\* ------------------------------------------------------------ part_001: fresh/stale cache
FRESH_TTL_MS == 6 * 60 * 60 * 1000
STALE_TTL_MS == 72 * 60 * 60 * 1000

\* withHardTimeout(existing, 16000, "inflight timeout")
INFLIGHT_TIMEOUT_001 == 16000

\* The listings requested from the fresh/stale variant: three of one host.
RefreshUrls == {<<"https://", "www.", "centris.ca", p>> : p \in PathTokens}

\* getCachedWithState on a cache of ages: the state, and the cache after it.
getCachedWithState(c, key) ==
  IF key \notin DOMAIN c THEN [state |-> "miss", cache |-> c]
  ELSE IF c[key] <= FRESH_TTL_MS THEN [state |-> "fresh", cache |-> c]
  ELSE IF c[key] <= STALE_TTL_MS THEN [state |-> "stale", cache |-> c]
  ELSE [state |-> "miss", cache |-> MapDelete(c, key)]

NoReq1 == [st |-> "none", key |-> <<>>, ticket |-> 0, elapsed |-> 0]
NoTask == [phase |-> "idle", host |-> <<>>, kind |-> "", key |-> <<>>, src |-> "", ran |-> 0]

Requests1 == 1..MaxRefreshRequests

\* const gate = getGateForUrl(url); await gate.acquire(): the gates and the
\* extraction t after the synchronous part.
StartExtraction(t, kind, url, key) ==
  LET gs == getGateForUrl(gates, url)
      host == hostOf(url)
      got == acquire(gs[host], HostGateMax, t)
  IN /\ gates' = [gs EXCEPT ![host] = got.gate]
     /\ tasks' = [tasks EXCEPT ![t] =
                    [phase |-> IF got.granted THEN "holding" ELSE "queued", host |-> host,
                     kind |-> kind, key |-> key, src |-> detectSource(url), ran |-> 0]]
     /\ inflight1' = MapSet(inflight1, key, t)

\* app.get("/api/listing") of part_001, to its first await or its response.
Arrive1(url) ==
  /\ variant = "part_001"
  /\ hostWoken = <<>>
  /\ \E r \in Requests1 : reqs1[r].st = "none"
  /\ url \in RefreshUrls
  /\ LET r == CHOOSE x \in Requests1 :
                reqs1[x].st = "none" /\ \A y \in Requests1 : y < x => reqs1[y].st # "none"
         key == makeCacheKey(Trim(url), <<>>)
         look == getCachedWithState(cache1, key)
     IN
       /\ cache1' = look.cache
       /\ IF look.state = "fresh"
          THEN /\ reqs1' = [reqs1 EXCEPT ![r].st = "done"]
               /\ UNCHANGED <<gates, tasks, inflight1>>
          ELSE IF look.state = "stale"
          THEN /\ reqs1' = [reqs1 EXCEPT ![r].st = "done"]
               /\ IF key \in DOMAIN inflight1
                  THEN UNCHANGED <<gates, tasks, inflight1>>
                  ELSE StartExtraction(r, "refresh", Trim(url), key)
          ELSE IF key \in DOMAIN inflight1
          THEN /\ reqs1' = [reqs1 EXCEPT ![r] =
                              [st |-> "waiter", key |-> key, ticket |-> inflight1[key],
                               elapsed |-> 0]]
               /\ UNCHANGED <<gates, tasks, inflight1>>
          ELSE /\ reqs1' = [reqs1 EXCEPT ![r] =
                              [st |-> "initiator", key |-> key, ticket |-> r, elapsed |-> 0]]
               /\ StartExtraction(r, "request", Trim(url), key)
  /\ UNCHANGED <<variant, inputs, hostWoken>>

\* The promise of extraction t settles: finally { gate.release() }, then
\* inflight.delete(key) (the handler's finally, or p.finally of the refresh)
\* and the responses of the handlers awaiting it.  The promise p.finally(...)
\* returns settles as p does and has no handler: when the refresh rejects it
\* is a rejected promise without a handler ("unhandled").
Settle1(t, last) ==
  LET host == tasks[t].host
      rel == release(gates[host])
  IN /\ gates' = [gates EXCEPT ![host] = rel.gate]
     /\ hostWoken' = IF rel.next = 0 THEN hostWoken ELSE Append(hostWoken, rel.next)
     /\ tasks' = [x \in DOMAIN tasks |->
                    IF x = t THEN [NoTask EXCEPT !.phase = last]
                    ELSE IF x = rel.next THEN [tasks[x] EXCEPT !.phase = "woken"]
                    ELSE tasks[x]]
     /\ inflight1' = MapDelete(inflight1, tasks[t].key)
     /\ reqs1' = [r \in Requests1 |->
                    IF reqs1[r].st \in {"initiator", "waiter"} /\ reqs1[r].ticket = t
                    THEN [NoReq1 EXCEPT !.st = "done"]
                    ELSE reqs1[r]]

\* The scrape resolves within its timeout: setCached(key, finalListing).
ExtractionReturns(t) ==
  /\ variant = "part_001"
  /\ hostWoken = <<>>
  /\ tasks[t].phase = "holding"
  /\ cache1' = MapSet(cache1, tasks[t].key, 0)
  /\ Settle1(t, "done")
  /\ UNCHANGED <<variant, inputs>>

\* The scrape rejects, or the timer of withHardTimeout (18000 / 14000) fires.
ExtractionFails(t) ==
  /\ variant = "part_001"
  /\ hostWoken = <<>>
  /\ tasks[t].phase = "holding"
  /\ Settle1(t, IF tasks[t].kind = "refresh" THEN "unhandled" ELSE "done")
  /\ UNCHANGED <<variant, inputs, cache1>>

\* The continuation of a queued acquire(): active += 1, then the scrape starts.
Resume1 ==
  /\ variant = "part_001"
  /\ hostWoken # <<>>
  /\ LET t == Head(hostWoken)
         host == tasks[t].host
     IN /\ gates' = [gates EXCEPT ![host] = acquireResumed(gates[host])]
        /\ tasks' = [tasks EXCEPT ![t].phase = "holding", ![t].ran = 0]
  /\ hostWoken' = Tail(hostWoken)
  /\ UNCHANGED <<variant, inputs, cache1, inflight1, reqs1>>

\* The timer of withHardTimeout(existing, 16000, "inflight timeout") fires.
WaiterTimeout1(w) ==
  /\ variant = "part_001"
  /\ hostWoken = <<>>
  /\ reqs1[w].st = "waiter"
  /\ hardTimeoutDue(reqs1[w].elapsed, INFLIGHT_TIMEOUT_001)
  /\ reqs1' = [reqs1 EXCEPT ![w] = [NoReq1 EXCEPT !.st = "done"]]
  /\ UNCHANGED <<variant, inputs, gates, tasks, hostWoken, cache1, inflight1>>

TimersLeft1 ==
  {hardTimeoutLeft(reqs1[w].elapsed, INFLIGHT_TIMEOUT_001) :
      w \in {x \in Requests1 : reqs1[x].st = "waiter"}}
    \cup {hardTimeoutLeft(tasks[t].ran, ScrapeTimeoutMs(variant, tasks[t].src)) :
            t \in {x \in DOMAIN tasks : tasks[x].phase = "holding"}}

\* The steps of the clock: to the next timer while one is armed; else to the
\* end of an entry's freshness, or to the last moment of its staleness.
TickSteps1 == TimersLeft1 \cup {FRESH_TTL_MS + 1, STALE_TTL_MS - FRESH_TTL_MS - 1}

Tick1(d) ==
  /\ variant = "part_001"
  /\ hostWoken = <<>>
  /\ d > 0
  /\ IF TimersLeft1 # {} THEN d \in TimersLeft1 /\ \A x \in TimersLeft1 : d <= x
     ELSE /\ cache1 # EmptyMap
          /\ d \in {FRESH_TTL_MS + 1, STALE_TTL_MS - FRESH_TTL_MS - 1}
          /\ \A t \in DOMAIN tasks : tasks[t].phase \in {"idle", "done", "unhandled"}
  /\ cache1' = [k \in DOMAIN cache1 |-> Min(cache1[k] + d, STALE_TTL_MS + 1)]
  /\ reqs1' = [r \in Requests1 |->
                 IF reqs1[r].st \in {"initiator", "waiter"}
                 THEN [reqs1[r] EXCEPT !.elapsed = @ + d] ELSE reqs1[r]]
  /\ tasks' = [t \in DOMAIN tasks |->
                 IF tasks[t].phase = "holding" THEN [tasks[t] EXCEPT !.ran = @ + d]
                 ELSE tasks[t]]
  /\ UNCHANGED <<variant, inputs, gates, hostWoken, inflight1>>

NextRefresh ==
  \/ \E url \in RefreshUrls : Arrive1(url)
  \/ \E t \in DOMAIN tasks : ExtractionReturns(t)
  \/ \E t \in DOMAIN tasks : ExtractionFails(t)
  \/ Resume1
  \/ \E w \in Requests1 : WaiterTimeout1(w)
  \/ \E d \in TickSteps1 : Tick1(d)

\* ------------------------------------------------------------ the shared browser
\* Call 0 is the warm-up of app.listen; the others are calls of
\* fetchHtmlPlaywright / fetchDuProprioStructuredPlaywright.
Warmup == 0
Fetches == 1..MaxFetches

Ended(c) == calls[c].pc \in {"returned", "threw"}
Launching == {c \in 0..MaxFetches : calls[c].pc = "launch"}

\* Where a call goes when ensureBrowser returns: the warm-up is over, a fetch
\* calls context.newPage().
AfterEnsure(c) == IF c = Warmup THEN "returned" ELSE "newPage"

\* ensureBrowser up to its first await: return if both variables are set,
\* else call chromium.launch.
ensureBrowser(c) ==
  /\ calls' = [calls EXCEPT ![c].pc =
                 IF browser # 0 /\ context # 0 THEN AfterEnsure(c) ELSE "launch"]
  /\ UNCHANGED <<browser, context, launched, pages, abandoned>>

\* app.listen(PORT, async () => { await ensureBrowser() ... })
WarmupStart ==
  /\ calls[Warmup].pc = "idle"
  /\ ensureBrowser(Warmup)

\* A scrape calls a Playwright fetch.  scrapeGate admits one scrape at a time
\* and a scrape awaits each of its fetches, so an earlier fetch has ended or
\* belongs to a scrape that the outer timeout has already given up.
FetchStart(c) ==
  /\ c \in Fetches
  /\ calls[c].pc = "idle"
  /\ \A d \in Fetches : d < c => (Ended(d) \/ d \in abandoned)
  /\ ensureBrowser(c)

\* withHardTimeout around the scrape fires while its fetch is under way: the
\* gate is released and the fetch goes on.
Abandon(c) ==
  /\ c \in Fetches
  /\ calls[c].pc \notin {"idle", "returned", "threw"}
  /\ c \notin abandoned
  /\ abandoned' = abandoned \cup {c}
  /\ UNCHANGED <<browser, context, launched, calls, pages>>

\* browser = await chromium.launch(...); then browser.newContext(...) is called.
LaunchDone(c) ==
  /\ calls[c].pc = "launch"
  /\ LET b == Cardinality(launched) + 1 IN
       /\ launched' = launched \cup {b}
       /\ browser' = b
       /\ calls' = [calls EXCEPT ![c] = [pc |-> "newContext", b |-> b]]
  /\ UNCHANGED <<context, pages, abandoned>>

\* context = await browser.newContext(...); then context.addInitScript(...).
ContextDone(c) ==
  /\ calls[c].pc = "newContext"
  /\ context' = calls[c].b
  /\ calls' = [calls EXCEPT ![c].pc = "addInitScript"]
  /\ UNCHANGED <<browser, launched, pages, abandoned>>

\* await context.addInitScript(...) resolves: ensureBrowser returns.
InitScriptDone(c) ==
  /\ calls[c].pc = "addInitScript"
  /\ calls' = [calls EXCEPT ![c].pc = AfterEnsure(c)]
  /\ UNCHANGED <<browser, context, launched, pages, abandoned>>

\* chromium.launch, newContext, addInitScript, newPage or the body of the try
\* block rejects: the call ends with the exception; finally closes the page
\* when the exception comes from inside the try block.
Throws(c) ==
  /\ calls[c].pc \in {"launch", "newContext", "addInitScript", "newPage", "route", "body"}
  /\ calls' = [calls EXCEPT ![c].pc = IF c = Warmup THEN "returned" ELSE "threw"]
  /\ pages' = IF calls[c].pc = "body" THEN pages \ {c} ELSE pages
  /\ UNCHANGED <<browser, context, launched, abandoned>>

\* const page = await context.newPage(); setDefault...Timeout;
\* enableFastRoutes(page) is called.
NewPageDone(c) ==
  /\ calls[c].pc = "newPage"
  /\ pages' = pages \cup {c}
  /\ calls' = [calls EXCEPT ![c].pc = "route"]
  /\ UNCHANGED <<browser, context, launched, abandoned>>

\* await enableFastRoutes(page) resolves: the try block is entered.
RouteDone(c) ==
  /\ calls[c].pc = "route"
  /\ calls' = [calls EXCEPT ![c].pc = "body"]
  /\ UNCHANGED <<browser, context, launched, pages, abandoned>>

\* return { ok: true, ... } finally { await page.close().catch(() => {}) }
BodyReturns(c) ==
  /\ calls[c].pc = "body"
  /\ pages' = pages \ {c}
  /\ calls' = [calls EXCEPT ![c].pc = "returned"]
  /\ UNCHANGED <<browser, context, launched, abandoned>>

NextBrowser ==
  \/ WarmupStart
  \/ \E c \in Fetches : FetchStart(c)
  \/ \E c \in Fetches : Abandon(c)
  \/ \E c \in 0..MaxFetches : LaunchDone(c)
  \/ \E c \in 0..MaxFetches : ContextDone(c)
  \/ \E c \in 0..MaxFetches : InitScriptDone(c)
  \/ \E c \in 0..MaxFetches : Throws(c)
  \/ \E c \in Fetches : NewPageDone(c)
  \/ \E c \in Fetches : RouteDone(c)
  \/ \E c \in Fetches : BodyReturns(c)

\* shutdown() up to its first pending await.  context?.close() and
\* browser?.close() are called on what the variables hold when they are read;
\* with both unset the function runs to its end at once.
ShutdownStart ==
  /\ shut.pc = "idle"
  /\ IF context # 0
     THEN /\ shut' = [shut EXCEPT !.pc = "closingContext", !.target = context]
          /\ UNCHANGED <<browser, context>>
     ELSE IF browser # 0
     THEN /\ shut' = [shut EXCEPT !.pc = "closingBrowser", !.target = browser]
          /\ UNCHANGED <<browser, context>>
     ELSE /\ shut' = [shut EXCEPT !.pc = "done"]
          /\ context' = 0
          /\ browser' = 0
  /\ UNCHANGED <<launched, calls, pages, abandoned>>

\* await context.close() is over (resolved, or rejected and caught):
\* browser?.close() is called on what browser holds now.
ContextClosed ==
  /\ shut.pc = "closingContext"
  /\ IF browser # 0
     THEN /\ shut' = [shut EXCEPT !.pc = "closingBrowser", !.target = browser,
                                  !.order = Append(@, "context")]
          /\ UNCHANGED <<browser, context>>
     ELSE /\ shut' = [shut EXCEPT !.pc = "done", !.order = Append(@, "context")]
          /\ context' = 0
          /\ browser' = 0
  /\ UNCHANGED <<launched, calls, pages, abandoned>>

\* await browser.close() is over: context = null; browser = null.
BrowserClosed ==
  /\ shut.pc = "closingBrowser"
  /\ shut' = [shut EXCEPT !.pc = "done", !.closed = @ \cup {shut.target},
                          !.order = Append(@, "browser")]
  /\ context' = 0
  /\ browser' = 0
  /\ UNCHANGED <<launched, calls, pages, abandoned>>

\* SIGINT / SIGTERM arrives while the service runs: calls of ensureBrowser
\* already made go on; no fetch is started once shutdown has been called.
NextShutdown ==
  \/ shut.pc = "idle" /\ (WarmupStart \/ \E c \in Fetches : FetchStart(c)) /\ UNCHANGED shut
  \/ /\ \/ \E c \in 0..MaxFetches : LaunchDone(c)
        \/ \E c \in 0..MaxFetches : ContextDone(c)
        \/ \E c \in 0..MaxFetches : InitScriptDone(c)
        \/ \E c \in 0..MaxFetches : Throws(c)
        \/ \E c \in Fetches : NewPageDone(c)
        \/ \E c \in Fetches : RouteDone(c)
        \/ \E c \in Fetches : BodyReturns(c)
     /\ UNCHANGED shut
  \/ ShutdownStart
  \/ ContextClosed
  \/ BrowserClosed

\* ------------------------------------------------------------ the tier orchestrators
\* One run of scrapeCentris / scrapeDuProprio under the handler's outer
\* timeout.  A tier is "direct" (fetchHtmlDirect), "structured"
\* (fetchDuProprioStructuredPlaywright) or "rendered" (fetchHtmlPlaywright).
NoError == [label |-> "", about |-> {}]
NoPage == [none |-> TRUE]

NoScrape ==
  [site |-> "", url |-> <<>>, hint |-> <<>>, stage |-> "NotStarted", tried |-> <<>>,
   ran |-> 0, handler |-> "none", record |-> NoListing, error |-> NoError,
   answer |-> NoListing, stored |-> NoListing, caller |-> "handler"]

SiteUrl(site) == IF site = "centris" THEN CentrisUrl ELSE DuProprioUrl
SitePages(site) == IF site = "centris" THEN CentrisPages ELSE DuProprioPages

\* fetchHtmlDirect: { ok: false } on any error, bad status, short or non-HTML
\* body; else the page, which looksBlocked may still reject.
\* fetchHtmlPlaywright: throws, or the page, blocked/short or not.
HtmlResults(site, failure) ==
  {[kind |-> failure, page |-> NoPage], [kind |-> "blocked", page |-> NoPage]}
    \cup {[kind |-> "page", page |-> p] : p \in SitePages(site)}

\* fetchDuProprioStructuredPlaywright: throws, or { ok: true, data }.
StructuredResults ==
  {[kind |-> "threw", page |-> NoPage]}
    \cup {[kind |-> "page", page |-> p] : p \in StructuredPayloads}

\* The time a tier can take: the direct fetch is aborted after 6.5 s (7 s for
\* Centris); a Playwright fetch navigates for up to 30 s, twice.  In part_001
\* the direct fetch is aborted after 5.5 s and a Playwright fetch navigates
\* for up to 9.5 s and reads the page for up to 5.5 s.
TierDurations(tier) ==
  IF variant = "part_001"
  THEN (IF tier = "direct" THEN {500, 5500} ELSE {4000, 9500, 15000})
  ELSE (IF tier = "direct" THEN {500, 6500} ELSE {4000, 40000})

ParseHtml(site, url, page) ==
  IF site = "centris" THEN parseCentrisFromHtml(url, page)
  ELSE parseDuProprioFromHtml(url, page)

\* An orchestrator that gives up when the direct fetch is blocked.
AfterDirect_BlockedIsFatal(site, url, res) ==
  IF res.kind = "blocked" THEN "Failed"
  ELSE IF res.kind # "page" THEN (IF site = "centris" THEN "TryingRendered" ELSE "TryingStructured")
  ELSE IF site = "centris" THEN "Succeeded"
  ELSE IF DuProprioAccepts(parseDuProprioFromHtml(url, res.page)) THEN "Succeeded"
  ELSE "TryingStructured"

\* Where the orchestrator goes when the direct fetch has ended.
AfterDirect(site, url, res) ==
  IF site = "centris"
  THEN (IF res.kind = "page" THEN "Succeeded" ELSE "TryingRendered")
  ELSE IF res.kind = "page" /\ DuProprioAccepts(parseDuProprioFromHtml(url, res.page))
       THEN "Succeeded"
       ELSE "TryingStructured"

\* An orchestrator without the try/catch around the structured tier.
AfterStructured_ThrowIsFatal(url, res) ==
  IF res.kind = "threw" THEN "Failed"
  ELSE IF DuProprioAccepts(parseDuProprioFromStructured(url, res.page)) THEN "Succeeded"
  ELSE "TryingRendered"

\* Where scrapeDuProprio goes when the structured tier has ended.
AfterStructured(url, res) ==
  IF res.kind = "page" /\ DuProprioAccepts(parseDuProprioFromStructured(url, res.page))
  THEN "Succeeded"
  ELSE "TryingRendered"

\* Where the orchestrator goes when the rendered tier has ended.
AfterRendered(site, url, res) ==
  IF res.kind # "page" THEN "Failed"
  ELSE IF site = "centris" THEN "Succeeded"
  ELSE IF DuProprioAccepts(parseDuProprioFromHtml(url, res.page)) THEN "Succeeded"
  ELSE "Failed"

\* How a tier's end is remembered.
TierResult(res, next) ==
  IF next = "Succeeded" THEN "accepted"
  ELSE IF res.kind = "page" THEN "rejected"
  ELSE res.kind

\* new Error(`<site> blocked/empty (title="${pw.title}" url="${pw.finalUrl}")`),
\* new Error(`duproprio missing fields (title=... url=...)`), or the exception
\* of fetchHtmlPlaywright: each tells of the rendered fetch only.
RenderedError(res) ==
  [label |-> IF res.kind = "page" THEN "missing fields"
             ELSE IF res.kind = "blocked" THEN "blocked/empty"
             ELSE "playwright error",
   about |-> {"rendered"}]

\* The addressHint of the request, trimmed: none, one, one with a double space.
ScrapeHints == {<<>>, HintAddress, <<"500", " ", " ", "Main", " ", "Street">>}

\* The handler calls scrapeCentris(url) / scrapeDuProprio(url) inside
\* withHardTimeout; the orchestrator calls fetchHtmlDirect.
StartScrape(site, hint) ==
  /\ scrape.stage = "NotStarted"
  /\ scrape' = [NoScrape EXCEPT !.site = site, !.url = SiteUrl(site), !.hint = hint,
                                !.stage = "TryingDirect", !.handler = "pending"]

\* if (looksGood) setCached(key, finalListing): what the handler stores.
Stored(finalListing) ==
  IF looksGood(variant, finalListing) THEN finalListing ELSE NoListing

\* A tier ends after d ms with the next stage, the record and the error given;
\* the handler, if its timer has not fired, goes on when the orchestrator
\* ends: address fallback, conditional setCached and the success response, or
\* the error response.
TierEnds(tier, res, d, next, record, error) ==
  /\ d \in TierDurations(tier)
  /\ scrape.handler = "pending" => scrape.ran + d <= ScrapeTimeoutMs(variant, scrape.site)
  /\ scrape' = [scrape EXCEPT
                  !.stage = next,
                  !.tried = Append(@, [tier |-> tier, result |-> TierResult(res, next)]),
                  !.ran = IF scrape.handler = "pending" THEN @ + d ELSE 0,
                  !.record = IF next = "Succeeded" THEN record ELSE NoListing,
                  !.error = IF next = "Failed" THEN error ELSE NoError,
                  !.answer = IF scrape.handler = "pending" /\ next = "Succeeded"
                             THEN FinalListing(record, scrape.hint) ELSE @,
                  !.stored = IF scrape.handler = "pending" /\ next = "Succeeded"
                             THEN Stored(FinalListing(record, scrape.hint)) ELSE @,
                  !.handler = IF scrape.handler # "pending" THEN @
                              ELSE IF next = "Succeeded" THEN "ok"
                              ELSE IF next = "Failed" THEN "failed"
                              ELSE @]

DirectEnds(res, d) ==
  /\ scrape.stage = "TryingDirect"
  /\ res \in HtmlResults(scrape.site, "failed")
  /\ TierEnds("direct", res, d, AfterDirect(scrape.site, scrape.url, res),
              ParseHtml(scrape.site, scrape.url, res.page), NoError)

StructuredEnds(res, d) ==
  /\ scrape.stage = "TryingStructured"
  /\ res \in StructuredResults
  /\ TierEnds("structured", res, d, AfterStructured(scrape.url, res),
              parseDuProprioFromStructured(scrape.url, res.page), NoError)

RenderedEnds(res, d) ==
  /\ scrape.stage = "TryingRendered"
  /\ res \in HtmlResults(scrape.site, "threw")
  /\ TierEnds("rendered", res, d, AfterRendered(scrape.site, scrape.url, res),
              ParseHtml(scrape.site, scrape.url, res.page), RenderedError(res))

CurrentTier ==
  CASE scrape.stage = "TryingDirect" -> "direct"
    [] scrape.stage = "TryingStructured" -> "structured"
    [] scrape.stage = "TryingRendered" -> "rendered"
    [] OTHER -> "none"

\* The timer of withHardTimeout(scrape..., 42000, ...) fires before the tier
\* under way ends: the handler answers 500; the orchestrator goes on.
ScrapeTimesOut ==
  /\ scrape.handler = "pending"
  /\ CurrentTier # "none"
  /\ \E d \in TierDurations(CurrentTier) :
       scrape.ran + d > ScrapeTimeoutMs(variant, scrape.site)
  /\ scrape' = [scrape EXCEPT !.handler = "timeout", !.ran = 0]

\* The message of the handler's 500 response: `Scrape failed: ${e.message}`.
ReplyError ==
  CASE scrape.handler = "timeout" -> TimeoutLabel(scrape.site)
    [] scrape.handler = "failed" -> scrape.error.label
    [] OTHER -> ""

NextTiers ==
  \/ \E site \in {"centris", "duproprio"}, hint \in ScrapeHints : StartScrape(site, hint)
  \/ \E res \in HtmlResults(scrape.site, "failed"), d \in TierDurations("direct") :
       DirectEnds(res, d)
  \/ \E res \in StructuredResults, d \in TierDurations("structured") : StructuredEnds(res, d)
  \/ \E res \in HtmlResults(scrape.site, "threw"), d \in TierDurations("rendered") :
       RenderedEnds(res, d)
  \/ ScrapeTimesOut

\* scrapeDuProprio of part_000 and part_001, called by the handler or by
\* refreshInBackground.  What a tier brings back: "failed" ({ ok: false }),
\* "threw", "none" (a payload without metaAmount and without ld+json), or a
\* page or payload in which the parser finds something ("real") or nothing
\* ("empty").
Results01(tier) ==
  CASE tier = "direct" -> {"failed", "real", "empty"}
    [] tier = "structured" -> {"threw", "none", "real", "empty"}
    [] tier = "rendered" -> {"threw", "real", "empty"}

\* Where scrapeDuProprio goes when a tier has ended: there is no try/catch
\* and no test of what was parsed.
scrapeDuProprio(tier, res) ==
  IF res = "threw" THEN "Failed"
  ELSE IF res \in {"real", "empty"} THEN "Succeeded"
  ELSE IF tier = "direct" THEN "TryingStructured"
  ELSE "TryingRendered"

\* parseDuProprioFromHtmlFast / parseDuProprioFromStructured of part_001: the
\* sentinel "-" and null where nothing was found; condoFees is always "-".
Parsed01(res) ==
  IF res = "real"
  THEN [address |-> RealAddress, price |-> <<"$450,000">>, beds |-> 2, baths |-> 1,
        area |-> <<"912", " ", "ft2">>, condoFees |-> <<"-">>]
  ELSE [address |-> <<>>, price |-> <<"-">>, beds |-> NoNumber, baths |-> NoNumber,
        area |-> NoText, condoFees |-> <<"-">>]

\* { ...listing, address: safeScraped || cleanText(addressHint) || "-" }
FinalListing01(listing, addressHint) ==
  LET a == FinalAddress(listing, addressHint) IN
    [listing EXCEPT !.address = IF a = NA THEN <<"-">> ELSE a]

\* A miss starts the scrape in the handler; a stale hit, whose entry holds
\* real values, starts it in refreshInBackground.
StartScrape01(caller, hint) ==
  /\ scrape.stage = "NotStarted"
  /\ scrape' = [NoScrape EXCEPT !.site = "duproprio", !.url = DuProprioUrl, !.hint = hint,
                                !.stage = "TryingDirect", !.handler = "pending",
                                !.caller = caller,
                                !.stored = IF caller = "refresh"
                                           THEN FinalListing01(Parsed01("real"), hint)
                                           ELSE NoListing]

\* A tier ends after d ms.  While withHardTimeout has not fired, the caller
\* goes on when scrapeDuProprio ends: setCached(key, finalListing) and return,
\* or the exception.
TierEnds01(tier, res, d) ==
  LET next == scrapeDuProprio(tier, res) IN
  /\ CurrentTier = tier
  /\ res \in Results01(tier)
  /\ d \in TierDurations(tier)
  /\ scrape.handler = "pending" => scrape.ran + d <= ScrapeTimeoutMs(variant, scrape.site)
  /\ scrape' = [scrape EXCEPT
                  !.stage = next,
                  !.tried = Append(@, [tier |-> tier, result |-> res]),
                  !.ran = IF scrape.handler = "pending" THEN @ + d ELSE 0,
                  !.record = IF next = "Succeeded" THEN Parsed01(res) ELSE NoListing,
                  !.error = IF next = "Failed"
                            THEN [label |-> "playwright error", about |-> {tier}] ELSE NoError,
                  !.answer = IF scrape.handler = "pending" /\ next = "Succeeded"
                             THEN FinalListing01(Parsed01(res), scrape.hint) ELSE @,
                  !.stored = IF scrape.handler = "pending" /\ next = "Succeeded"
                             THEN FinalListing01(Parsed01(res), scrape.hint) ELSE @,
                  !.handler = IF scrape.handler # "pending" THEN @
                              ELSE IF next = "Succeeded" THEN "ok"
                              ELSE IF next = "Failed" THEN "failed"
                              ELSE @]

NextTiers01 ==
  \/ \E caller \in {"handler", "refresh"}, hint \in ScrapeHints : StartScrape01(caller, hint)
  \/ \E tier \in {"direct", "structured", "rendered"} :
       \E res \in Results01(tier), d \in TierDurations(tier) : TierEnds01(tier, res, d)
  \/ ScrapeTimesOut

\* ------------------------------------------------------------ the helpers, called alone
\* The urls and hints of two requests: a listing, the same listing followed
\* by the key's separator, and hints with and without the separator.
KeyUrls == {CentrisUrl, CentrisUrl \o <<"::hint=", "A">>, DuProprioUrl}
KeyHints == {<<>>, <<"A">>, <<"A", " ">>, <<"A", "::hint=">>, <<"::hint=", "A">>}

\* Texts of amounts: a lead, an amount (whole tokens or characters), a tail.
MoneyTexts ==
  {NA, <<"-">>, <<"Price", " ", "on", " ", "request">>}
    \cup {l \o a \o t :
            l \in {<<>>, <<" ">>, <<"fees", " ">>, <<"2", " ", "x", " ">>},
            a \in {<<>>, <<"0">>, <<"7">>, <<"$250">>, <<"1199">>, <<"1200">>, <<"$3,000">>,
                   <<"$450,000">>, <<"$", "1", "2", ",", "0", "0", "0">>},
            t \in {<<>>, <<" ", "/", " ", "month">>, <<"/month">>, <<" ", "/", " ", "year">>,
                   <<" ", "yearly">>, <<" ", "Monthly">>, <<".">>, <<".", ".", ".">>,
                   <<" ", "N/A">>}}

\* Texts of areas: a number, a unit, what follows.
AreaTexts ==
  {<<>>, <<" ">>, NA, <<"sqft", " ", "912">>}
    \cup {l \o n \o sp \o u \o t :
            l \in {<<>>, <<"about", " ">>},
            n \in {<<"912">>, <<"977">>, <<"1,200">>, <<>>},
            sp \in {<<>>, <<" ">>},
            u \in {<<"sqft">>, <<"ft2">>, <<"m2">>, <<>>},
            t \in {<<>>, <<" ", "(90.77", " ", "m2)">>, <<" ", "(977", " ", "ft2)">>}}

\* makeCacheKey(url, addressHint) for two requests.
KeysMade(u1, h1, u2, h2) ==
  probe' = [fn |-> "makeCacheKey", url1 |-> u1, hint1 |-> h1, url2 |-> u2, hint2 |-> h2,
            key1 |-> makeCacheKey(u1, h1), key2 |-> makeCacheKey(u2, h2)]

\* moneyToNumber(s), then formatMoney of the number and moneyToNumber of that.
MoneyParsed(s) ==
  probe' = [fn |-> "moneyToNumber", arg |-> s, ret |-> moneyToNumber(s),
            formatted |-> formatMoney(moneyToNumber(s)),
            back |-> moneyToNumber(formatMoney(moneyToNumber(s)))]

\* ensureMonthlyFeesString(raw), then ensureMonthlyFeesString of what it returned.
FeesNormalized(raw) ==
  probe' = [fn |-> "ensureMonthlyFeesString", arg |-> raw,
            ret |-> ensureMonthlyFeesString(raw),
            again |-> ensureMonthlyFeesString(ensureMonthlyFeesString(raw))]

\* normalizeAreaToFt2(areaStr)
AreaNormalized(areaStr) ==
  probe' = [fn |-> "normalizeAreaToFt2", arg |-> areaStr, ret |-> normalizeAreaToFt2(areaStr)]

NextHelpers ==
  \/ \E u1 \in KeyUrls, h1 \in KeyHints, u2 \in KeyUrls, h2 \in KeyHints : KeysMade(u1, h1, u2, h2)
  \/ \E s \in MoneyTexts : MoneyParsed(s)
  \/ \E raw \in MoneyTexts : FeesNormalized(raw)
  \/ \E areaStr \in AreaTexts : AreaNormalized(areaStr)

\* ------------------------------------------------------------ the page helpers, called alone
\* msg.includes("Execution context was destroyed") || msg.includes("because of a navigation")
isExecutionContextDestroyed_AnyError(e) == e # "ok"

isExecutionContextDestroyed(e) == e = "destroyed"

\* safeEvaluate(page, fn, { retries }) up to its first page.evaluate.
safeEvaluate(retries) ==
  probe' = [fn |-> "safeEvaluate", retries |-> retries, i |-> 0, runs |-> <<>>,
            pc |-> "evaluate", thrown |-> "none"]

\* page.evaluate under withHardTimeout ends: "ok", "destroyed" (the execution
\* context was destroyed by a navigation), "timeout" (`${label} timeout`) or
\* "error" (any other exception); then the catch block and the loop.
EvaluateEnds(e) ==
  /\ probe.fn = "safeEvaluate" /\ probe.pc = "evaluate"
  /\ probe' = [probe EXCEPT
                 !.runs = Append(@, e),
                 !.i = IF isExecutionContextDestroyed(e) /\ probe.i # probe.retries
                       THEN @ + 1 ELSE @,
                 !.pc = IF e = "ok" THEN "returned"
                        ELSE IF isExecutionContextDestroyed(e) /\ probe.i # probe.retries
                        THEN "evaluate"
                        ELSE "threw",
                 !.thrown = IF e = "ok" \/ (isExecutionContextDestroyed(e) /\ probe.i # probe.retries)
                            THEN "none" ELSE e]

\* gotoWithRetries(page, url, { tries }) up to its first page.goto.
gotoWithRetries(tries) ==
  probe' = [fn |-> "gotoWithRetries", tries |-> tries, attempt |-> 0, gotos |-> <<>>,
            pc |-> "goto", thrown |-> "none"]

\* page.goto(url, { waitUntil }) under withHardTimeout ends: "ok", "timeout"
\* (the message holds "timeout") or "error"; on a timeout the page is stopped
\* and, while attempt < tries, page.goto(url, { waitUntil: "commit" }) is called.
GotoEnds(e) ==
  /\ probe.fn = "gotoWithRetries" /\ probe.pc = "goto"
  /\ probe' = [probe EXCEPT
                 !.gotos = Append(@, [waitUntil |-> "domcontentloaded", result |-> e]),
                 !.pc = IF e = "ok" THEN "returned"
                        ELSE IF e = "timeout" /\ probe.attempt < probe.tries THEN "commit"
                        ELSE "threw",
                 !.thrown = IF e = "ok" \/ (e = "timeout" /\ probe.attempt < probe.tries)
                            THEN "none" ELSE e]

\* The goto with "commit" ends: return, or lastErr = e2 and the loop goes on
\* with attempt + 1.
CommitEnds(e) ==
  /\ probe.fn = "gotoWithRetries" /\ probe.pc = "commit"
  /\ probe' = [probe EXCEPT
                 !.gotos = Append(@, [waitUntil |-> "commit", result |-> e]),
                 !.attempt = IF e = "ok" THEN @ ELSE @ + 1,
                 !.pc = IF e = "ok" THEN "returned" ELSE "goto"]

\* The waits of page.waitForSelector for two selectors: the selector would
\* appear ("found") or the wait would reject for another reason than its
\* timeout ("failed") at the time given; a wait still pending at timeoutMs
\* rejects then.
SelectorWaits ==
  {<<[sel |-> ".listing-price__amount", kind |-> k1, at |-> a1],
     [sel |-> "body", kind |-> k2, at |-> a2]>> :
     k1 \in {"found", "failed"}, k2 \in {"found", "failed"},
     a1 \in {0, 2000, 16000, 20000}, a2 \in {0, 2000, 16000, 20000}}

\* Promise.race over the waits, each mapped to its selector or to null: the
\* first to settle wins, the first of the array among those that settle
\* together; winner || "".
waitForAny(waits, timeoutMs) ==
  LET settles(i) == IF waits[i].kind = "found" /\ waits[i].at <= timeoutMs
                    THEN waits[i].at ELSE Min(waits[i].at, timeoutMs)
      winner == CHOOSE i \in 1..Len(waits) :
                  \A j \in 1..Len(waits) :
                    settles(i) < settles(j) \/ (settles(i) = settles(j) /\ i <= j)
  IN IF waits[winner].kind = "found" /\ waits[winner].at <= timeoutMs
     THEN waits[winner].sel ELSE ""

WaitedForAny(waits, timeoutMs) ==
  probe' = [fn |-> "waitForAny", waits |-> waits, timeoutMs |-> timeoutMs,
            ret |-> waitForAny(waits, timeoutMs)]

NextPageHelpers ==
  \/ \E retries \in {2} : safeEvaluate(retries)
  \/ \E e \in {"ok", "destroyed", "timeout", "error"} : EvaluateEnds(e)
  \/ \E tries \in {2} : gotoWithRetries(tries)
  \/ \E e \in {"ok", "timeout", "error"} : GotoEnds(e)
  \/ \E e \in {"ok", "timeout", "error"} : CommitEnds(e)
  \/ \E waits \in SelectorWaits, timeoutMs \in {16000} : WaitedForAny(waits, timeoutMs)

\* ------------------------------------------------------------ specifications
Next == Next002 /\ UNCHANGED <<vars001, varsRefresh, varsBrowser, scrape, probe>>

\* part_002 serving requests for two listings.
Spec == Init /\ [][Next]_vars

\* part_002 under the event loop's scheduling: time passes, a timer that is
\* due fires, a resolved acquire() resumes.  Nothing makes a scrape end.
Others002 == UNCHANGED <<vars001, varsRefresh, varsBrowser, scrape, probe>>

Fairness ==
  /\ WF_vars((\E d \in TickSteps : Tick(d)) /\ Others002)
  /\ WF_vars((\E e \in Ids : OuterTimeout(e)) /\ Others002)
  /\ WF_vars((\E w \in Ids : WaiterTimeout(w)) /\ Others002)
  /\ WF_vars(Resume /\ Others002)

\* Requests for one listing with refresh=1, and for another without.
InitLive ==
  /\ variant = "part_002"
  /\ inputs = [queries |-> {Query(CentrisUrl, <<>>, <<"1">>),
                            Query(DuProprioUrl, HintAddress, <<>>)},
               count |-> MaxRequests]
  /\ Init002 /\ Init001 /\ InitBrowserVars

SpecLive == InitLive /\ [][Next]_vars /\ Fairness

\* part_002 serving requests that all have the same key.
InitSameKey ==
  /\ variant = "part_002"
  /\ inputs = [queries |-> SameKeyQueries, count |-> MaxSameKey]
  /\ Init002 /\ Init001 /\ InitBrowserVars

SpecSameKey == InitSameKey /\ [][Next]_vars

\* Each of the three source files.
InitAll ==
  /\ variant \in Variants \cup {"part_001"}
  /\ inputs = [queries |-> Queries, count |-> MaxRequests]
  /\ Init002 /\ Init001 /\ InitBrowserVars

NextAll ==
  \/ Next002 /\ UNCHANGED <<vars001, varsRefresh, varsBrowser, scrape, probe>>
  \/ Next001 /\ UNCHANGED <<vars002, varsRefresh, varsBrowser, scrape, probe>>

SpecAll == InitAll /\ [][NextAll]_vars

\* part_002 serving requests whose url names a listing site in its host or
\* only in its query string.
ReferrerUrl == <<"https://", "example.com", "/?ref=", "centris.ca">>

InitHosts ==
  /\ variant = "part_002"
  /\ inputs = [queries |-> {Query(CentrisUrl, <<>>, <<>>), Query(ReferrerUrl, <<>>, <<>>),
                            Query(OtherUrl, <<>>, <<>>)},
               count |-> MaxRequests]
  /\ Init002 /\ Init001 /\ InitBrowserVars

SpecHosts == InitHosts /\ [][Next]_vars

\* The warm-up and the Playwright fetches of part_002.
NextBrowserOnly ==
  NextBrowser /\ UNCHANGED <<variant, inputs, vars002, vars001, varsRefresh, scrape, probe, shut>>

SpecBrowser == Init /\ [][NextBrowserOnly]_vars

\* The warm-up, the Playwright fetches and shutdown() of part_002.
NextShutdownOnly ==
  NextShutdown /\ UNCHANGED <<variant, inputs, vars002, vars001, varsRefresh, scrape, probe>>

SpecShutdown == Init /\ [][NextShutdownOnly]_vars

\* One run of an orchestrator of part_002.
NextTiersOnly ==
  NextTiers /\ UNCHANGED <<variant, inputs, vars002, vars001, varsRefresh, varsBrowser, probe>>

SpecTiers == Init /\ [][NextTiersOnly]_vars

\* part_001 serving requests for three listings of one host.
InitRefresh ==
  /\ variant = "part_001"
  /\ inputs = [queries |-> Queries, count |-> MaxRequests]
  /\ Init002 /\ Init001 /\ InitBrowserVars

NextRefreshOnly == NextRefresh /\ UNCHANGED <<vars002, varsBrowser, scrape, probe>>

SpecRefresh == InitRefresh /\ [][NextRefreshOnly]_vars

\* One run of scrapeDuProprio of part_001.
InitTiers01 ==
  /\ variant = "part_001"
  /\ inputs = [queries |-> Queries, count |-> MaxRequests]
  /\ Init002 /\ Init001 /\ InitBrowserVars

NextTiers01Only ==
  NextTiers01 /\ UNCHANGED <<variant, inputs, vars002, vars001, varsRefresh, varsBrowser, probe>>

SpecTiers01 == InitTiers01 /\ [][NextTiers01Only]_vars

\* The Playwright helpers of part_002 called on their own.
NextPageHelpersOnly ==
  NextPageHelpers /\ UNCHANGED <<variant, inputs, vars002, vars001, varsRefresh, varsBrowser, scrape>>

SpecPageHelpers == Init /\ [][NextPageHelpersOnly]_vars

\* The helpers of part_002 called on their own.
NextHelpersOnly ==
  NextHelpers /\ UNCHANGED <<variant, inputs, vars002, vars001, varsRefresh, varsBrowser, scrape>>

SpecHelpers == Init /\ [][NextHelpersOnly]_vars

\* ------------------------------------------------------------ claims
Initiators == {r \in Ids : reqs[r].st = "initiator"}
Waiters == {r \in Ids : reqs[r].st = "waiter"}

\* C1: requests without refresh=1 for one key that arrive before the first of
\* them completes start one extraction: no two of them are initiators at once.
C1_OneExtractionPerKey ==
  \A r1, r2 \in Initiators :
    (r1 # r2 /\ ~reqs[r1].refresh /\ ~reqs[r2].refresh) => reqs[r1].key # reqs[r2].key

\* C2: no two extractions for one key have both been created and not completed.
C2_NoTwoExtractionsPerKey ==
  \A e1, e2 \in Ids :
    (e1 # e2 /\ Unsettled(e1) /\ Unsettled(e2)) => ext[e1].key # ext[e2].key

\* C3: the in-flight map holds only tickets of extractions that have not
\* completed and whose handler is still running; no ticket is left for an
\* extraction that has completed, and the map is empty when no request is
\* being processed.
C3_TicketsOnlyWhilePending ==
  /\ \A k \in DOMAIN inflight :
       /\ Unsettled(inflight[k])
       /\ reqs[inflight[k]].st = "initiator"
       /\ ext[inflight[k]].key = k
  /\ \A e \in Ids : ~Unsettled(e) => \A k \in DOMAIN inflight : inflight[k] # e
  /\ (~Busy => inflight = EmptyMap)

\* An extraction has completed, its handler has answered, and the ticket it
\* put in the map is gone.
C3_Witness ==
  /\ \E r \in DOMAIN resp : resp[r].role = "initiator" /\ resp[r].key \notin DOMAIN inflight
  /\ ~Busy

\* C4: the extractions that have returned from acquire() and have not called
\* release() are at most 1 for scrapeGate and at most 2 for each host's gate.
Holders002 == {e \in Ids : ext[e].phase = "running"}
HostHolders(host) == {t \in 1..MaxTasks : tasks[t].phase = "holding" /\ tasks[t].host = host}

C4_GateLimit ==
  /\ Cardinality(Holders002) <= 1
  /\ \A host \in DOMAIN gates : Cardinality(HostHolders(host)) <= 2

\* Two extractions hold a host's gate and a third waits in its queue.
C4_Witness ==
  \E host \in DOMAIN gates :
    Cardinality(HostHolders(host)) = 2 /\ gates[host].queue # <<>>

\* C5: getCached returns null for an entry older than the TTL and removes it;
\* it returns a younger entry and leaves the cache alone.  A response served
\* from the cache carries an entry no older than the TTL, still in place.
C5_CacheTtl ==
  /\ \A k \in DOMAIN cache :
       LET got == getCached(cache, k) IN
         IF cache[k].age > 6 * 60 * 60 * 1000
         THEN got.ret = NoListing /\ k \notin DOMAIN got.cache
              /\ got.cache = [x \in DOMAIN cache \ {k} |-> cache[x]]
         ELSE got.ret = cache[k].data /\ got.cache = cache
  /\ \A r \in DOMAIN resp :
       resp[r].cached =>
         /\ resp[r].key \in DOMAIN cache
         /\ cache[resp[r].key].age <= 6 * 60 * 60 * 1000
         /\ cache[resp[r].key].data = resp[r].listing

\* A request found its key's entry expired: the entry is gone and the request
\* is scraping.
C5_Witness ==
  \E r \in Ids : Pending(r) /\ reqs[r].evicted /\ reqs[r].key \notin DOMAIN cache

\* C6: every cached record has a value in one of price, beds, baths, area or
\* condo fee.
HasRealValue(l) ==
  \/ l.price \notin {NA, <<>>}
  \/ l.beds # NoNumber
  \/ l.baths # NoNumber
  \/ l.area \notin {NoText, NA, <<>>}
  \/ l.condoFees \notin {NA, <<>>}

C6_CachedRecordsAreGood ==
  \A k \in DOMAIN cache : HasRealValue(cache[k].data)

\* A record with no value was returned to the caller and not stored.
C6_Witness ==
  \E r \in DOMAIN resp :
    /\ resp[r].role = "initiator" /\ resp[r].status = 200
    /\ ~HasRealValue(resp[r].listing)
    /\ resp[r].key \notin DOMAIN cache

\* A step in which the handler that started an extraction answers 500.
FailureStep(r) ==
  /\ reqs[r].st = "initiator"
  /\ r \in DOMAIN resp'
  /\ resp'[r].status = 500

\* C7 as stated: a failed extraction leaves the cache as it was before the
\* request: its handler has added, replaced and removed nothing.
C7_CacheAsBeforeRequest ==
  [][\A r \in Ids :
       FailureStep(r) => (cache' = cache /\ ~resp'[r].evicted /\ ~resp'[r].ok)]_vars

\* C7 amended: the failure itself changes no cache entry and is answered 500
\* with ok false and an error; the only change the failed request has made
\* is the removal, by its lookup, of an entry already older than the TTL,
\* which a request with refresh=1 never does.
C7_FailureLeavesCache ==
  [][\A r \in Ids :
       FailureStep(r) =>
         /\ cache' = cache
         /\ ~resp'[r].ok /\ resp'[r].error # "" /\ resp'[r].listing = NoListing
         /\ (resp'[r].evicted => ~resp'[r].refresh)]_vars

\* An extraction started with refresh=1 has failed and the older entry of its
\* key is still cached.
C7_Witness ==
  \E r \in DOMAIN resp :
    /\ resp[r].role = "initiator" /\ resp[r].status = 500
    /\ resp[r].refresh /\ resp[r].key \in DOMAIN cache

\* C8: a request with no url or with a url of no recognized site is answered
\* 400 with ok false, and starts nothing: gate, tickets, extractions and cache
\* stay as they are.
NamesListingSite(url) ==
  \E i \in 1..Len(url) : url[i] \in {"centris.ca", "duproprio.com"}

BadUrl(url) == url = <<>> \/ ~NamesListingSite(url)

C8_BadInputRejected ==
  /\ [](/\ \A r \in DOMAIN resp :
            BadUrl(resp[r].url) =>
              resp[r].status = 400 /\ ~resp[r].ok /\ resp[r].role = "rejected"
        /\ \A r \in Ids : Pending(r) => ~BadUrl(reqs[r].url))
  /\ [][(nextId' # nextId /\ nextId \in DOMAIN resp' /\ BadUrl(resp'[nextId].url)) =>
          UNCHANGED <<cache, inflight, scrapeGate, woken, reqs, ext>>]_vars

\* A request for an unknown site was answered 400 while an extraction was
\* running.
C8_Witness ==
  /\ \E r \in DOMAIN resp : resp[r].status = 400 /\ resp[r].url # <<>>
  /\ \E e \in Ids : ext[e].phase = "running"

\* C9: a request that joined a ticket is answered within 30 s of joining; its
\* timeout answers 500 and leaves the extraction, the tickets, the gate and
\* the cache as they are.
C9_WaiterBounded ==
  /\ [](/\ \A w \in Waiters : reqs[w].elapsed <= 30000
        /\ \A r \in DOMAIN resp : resp[r].role = "waiter" => resp[r].latency <= 30000)
  /\ [][\A w \in Ids :
          (reqs[w].st = "waiter" /\ w \in DOMAIN resp'
             /\ ext'[reqs[w].ticket].phase \in {"queued", "woken", "running"})
            => /\ resp'[w].status = 500
               /\ reqs[w].elapsed = 30000
               /\ UNCHANGED <<cache, inflight, scrapeGate, woken, ext>>]_vars

\* A waiter timed out while the extraction it joined was still queued at the
\* gate.
C9_Witness ==
  \E r \in DOMAIN resp :
    /\ resp[r].role = "waiter" /\ resp[r].error = "inflight timeout"
    /\ ext[resp[r].ticket].phase = "queued"

\* C10: a request that starts an extraction is answered within 42 s of its
\* arrival.
C10_InitiatorBounded ==
  /\ \A r \in Initiators : reqs[r].elapsed <= 42000
  /\ \A r \in DOMAIN resp : resp[r].role = "initiator" => resp[r].latency <= 42000

\* C11: a record passing the quality predicate that a scrape produces after
\* its outer timeout has failed the request is stored in the cache under the
\* request's key.
C11_LateRecordCached ==
  (late.listing # NoListing /\ looksGood(variant, FinalListing(late.listing, late.hint)))
    => /\ late.key \in DOMAIN cache
       /\ cache[late.key].data = FinalListing(late.listing, late.hint)

\* C12: chromium.launch is never called while a launched browser is live or
\* another launch is in progress: launches under way and browsers launched
\* are together at most one.
C12_OneBrowser ==
  Cardinality(launched) + Cardinality(Launching) <= 1

\* C13: every page a fetch created is closed when the fetch has returned or
\* thrown.
C13_PagesClosedOnExit ==
  \A c \in Fetches : Ended(c) => c \notin pages

\* The tiers tried so far, in order.
TiersTried == [i \in 1..Len(scrape.tried) |-> scrape.tried[i].tier]
Tried(tier) == \E i \in 1..Len(scrape.tried) : scrape.tried[i].tier = tier

\* C14: scrapeDuProprio tries direct, then rendered, then structured: the
\* structured tier is not under way or tried unless the rendered tier has
\* been tried.
C14_RenderedBeforeStructured ==
  (scrape.stage = "TryingStructured" \/ Tried("structured")) =>
    \E i, j \in 1..Len(scrape.tried) :
      i < j /\ scrape.tried[i].tier = "rendered" /\ scrape.tried[j].tier = "structured"

\* C15: a record an orchestrator returns has a value in one of price, beds,
\* baths, area or fee.
C15_ReturnedRecordIsGood ==
  scrape.stage = "Succeeded" => HasRealValue(scrape.record)

\* C16: a direct or structured tier of scrapeDuProprio that ends without an
\* accepted record does not fail the request: the orchestrator goes on to the
\* next tier.
C16_TierFailureNotFatal ==
  [][(scrape.site = "duproprio" /\ scrape.stage \in {"TryingDirect", "TryingStructured"}
        /\ scrape'.stage # scrape.stage)
       => /\ scrape'.stage \in
               {"Succeeded",
                IF scrape.stage = "TryingDirect" THEN "TryingStructured" ELSE "TryingRendered"}
          /\ scrape'.handler # "failed"
          /\ scrape'.stage = "Succeeded" =>
               /\ scrape'.tried[Len(scrape'.tried)].result = "accepted"
               /\ DuProprioAccepts(scrape'.record)]_vars

\* The direct fetch was blocked, the structured fetch threw, and the rendered
\* tier is under way with the request still pending.
C16_Witness ==
  /\ scrape.site = "duproprio" /\ scrape.stage = "TryingRendered"
  /\ scrape.handler = "pending"
  /\ scrape.tried = <<[tier |-> "direct", result |-> "blocked"],
                      [tier |-> "structured", result |-> "threw"]>>

ApplicableTiers(site) ==
  IF site = "centris" THEN {"direct", "rendered"} ELSE {"direct", "structured", "rendered"}

AllTiersFailed ==
  /\ \A tier \in ApplicableTiers(scrape.site) : Tried(tier)
  /\ \A i \in 1..Len(scrape.tried) : scrape.tried[i].result # "accepted"

\* C17 as stated: a request is failed only when every tier of its site has
\* been tried and has failed.
C17_FailedOnlyAfterAllTiers ==
  scrape.handler \in {"failed", "timeout"} => AllTiersFailed

\* C17 amended: a request is failed by its orchestrator only when every tier
\* of its site has been tried and has failed, the rendered tier last; the one
\* other failure is the outer timeout, which carries the timeout's message.
C17_FailedByTiersOrTimeout ==
  /\ scrape.handler = "failed" =>
       /\ AllTiersFailed
       /\ scrape.stage = "Failed"
       /\ scrape.tried[Len(scrape.tried)].tier = "rendered"
       /\ ReplyError \in {"blocked/empty", "missing fields", "playwright error"}
  /\ scrape.handler = "timeout" => ReplyError \in {"centris timeout", "duproprio timeout"}
  /\ (scrape.stage = "Failed" /\ scrape.handler # "timeout") => scrape.handler = "failed"

\* A DuProprio request failed after its three tiers had failed.
C17_Witness ==
  /\ scrape.handler = "failed" /\ scrape.site = "duproprio"
  /\ TiersTried = <<"direct", "structured", "rendered">>

\* Every tier came back with a block page (the structured tier, which reads
\* the page in place, found nothing on it).
AllTiersBlocked ==
  /\ scrape.tried # <<>>
  /\ \A i \in 1..Len(scrape.tried) :
       \/ scrape.tried[i].result = "blocked"
       \/ scrape.tried[i].tier = "structured" /\ scrape.tried[i].result = "rejected"

\* C18: when every tier returned a block page the orchestrator fails with an
\* error that tells of each tier that was tried.
C18_ErrorNamesEachTier ==
  (scrape.stage = "Failed" /\ AllTiersBlocked) =>
    \A i \in 1..Len(scrape.tried) : scrape.tried[i].tier \in scrape.error.about

ListingKeys ==
  {"url", "source", "address", "price", "beds", "baths", "levels", "area", "condoFees",
   "contact"}

\* The listing of the success response, the one setCached stores.
Answered == FinalListing(scrape.record, scrape.hint)

\* C20: a listing answered or cached has every key, and its address, price,
\* condoFees and contact are never empty.
C20_EveryFieldPresent ==
  scrape.handler = "ok" =>
    /\ ListingKeys \subseteq DOMAIN Answered
    /\ \A k \in {"address", "price", "condoFees", "contact"} : cleanText(Answered[k]) # <<>>

\* A record parsed from the structured payload, with no address and no hint,
\* was answered with the sentinel for its address.
C20_Witness ==
  /\ scrape.handler = "ok"
  /\ scrape.record.address = <<>> /\ scrape.hint = <<>>
  /\ "_diag" \in DOMAIN scrape.record
  /\ Answered.address = NA /\ Answered.condoFees = NA

\* C19: no request waits behind a background refresh: none awaits the promise
\* of a refresh, and no request's extraction is queued at a gate of which a
\* refresh holds a slot.
C19_NeverBehindRefresh ==
  /\ \A w \in Requests1 :
       reqs1[w].st = "waiter" => tasks[reqs1[w].ticket].kind # "refresh"
  /\ \A t \in DOMAIN tasks :
       (tasks[t].kind = "request" /\ tasks[t].phase = "queued") =>
         ~\E h \in DOMAIN tasks :
            tasks[h].kind = "refresh" /\ tasks[h].phase = "holding"
              /\ tasks[h].host = tasks[t].host

\* C21: the address of an answered listing is the cleaned scraped address when
\* it passes looksLikeRealAddress, else the cleaned hint when there is one,
\* else the sentinel; it is never empty and never a scraped address that
\* fails validation.
C21_AddressByFallback ==
  scrape.handler = "ok" =>
    LET scraped == cleanText(scrape.record.address)
        hint == cleanText(scrape.hint)
        address == scrape.answer.address
    IN /\ address = (IF looksLikeRealAddress(scrape.record.address) THEN scraped
                     ELSE IF hint # <<>> THEN hint ELSE NA)
       /\ address # <<>>
       /\ (scraped # <<>> /\ ~looksLikeRealAddress(scraped)) => address # scraped

\* A promotional sentence scraped as the address was replaced by the hint,
\* cleaned of its double space.
C21_Witness ==
  /\ scrape.handler = "ok"
  /\ scrape.record.address = PromoAddress
  /\ scrape.hint # HintAddress
  /\ scrape.answer.address = HintAddress

\* C22: the listing answered and stored has the fields of the orchestrator's
\* record with the same values, the address excepted; what is stored is what
\* is answered.
C22_OnlyAddressRewritten ==
  scrape.handler = "ok" =>
    /\ DOMAIN scrape.answer = DOMAIN scrape.record
    /\ \A k \in DOMAIN scrape.record \ {"address"} : scrape.answer[k] = scrape.record[k]
    /\ scrape.stored \in {NoListing, scrape.answer}

\* A record with a contact and a promotional address was answered and stored
\* with another address and the same contact.
C22_Witness ==
  /\ scrape.handler = "ok"
  /\ scrape.record.contact # NA
  /\ scrape.record.address # scrape.answer.address
  /\ scrape.stored = scrape.answer

\* C24: makeCacheKey gives one key to requests with the same url and trimmed
\* hint, and different keys to requests that differ in url or trimmed hint.
C24_KeyInjective ==
  probe.fn = "makeCacheKey" =>
    ((probe.key1 = probe.key2)
       <=> (probe.url1 = probe.url2 /\ Trim(probe.hint1) = Trim(probe.hint2)))

\* C25: moneyToNumber returns null, not 0, for a text with no digit.
C25_NullWithoutDigit ==
  (probe.fn = "moneyToNumber" /\ DigitsCount(probe.arg) = 0) => probe.ret = NoNumber

\* C26: ensureMonthlyFeesString applied to what it returned returns the same.
C26_FeesIdempotent ==
  probe.fn = "ensureMonthlyFeesString" => probe.again = probe.ret

\* A yearly amount was converted, and the converted text was left as it was.
C26_Witness ==
  /\ probe.fn = "ensureMonthlyFeesString"
  /\ probe.arg = <<"$3,000", " ", "/", " ", "year">>
  /\ probe.ret = <<"$", "2", "5", "0", " ", "/", " ", "month">>
  /\ probe.again = probe.ret

\* C27: normalizeAreaToFt2 returns null for a blank text, "N ft2" for
\* "N sqft", and a text that holds "ft2" or "m2" (and no "sqft") as it is.
C27_AreaKept ==
  probe.fn = "normalizeAreaToFt2" =>
    LET t == cleanText(probe.arg) IN
      /\ t = <<>> => probe.ret = NoText
      /\ \A n \in AreaNumbers : t = <<n, " ", "sqft">> => probe.ret = <<n, " ", "ft2">>
      /\ (~Includes(t, "sqft") /\ (Includes(t, "ft2") \/ Includes(t, "m2)") \/ Includes(t, "m2")))
           => probe.ret = t

\* C28: formatting the amount of a text and parsing it back gives the amount.
C28_MoneyRoundTrip ==
  (probe.fn = "moneyToNumber" /\ probe.ret # NoNumber) => probe.back = probe.ret

\* "$450,000" was parsed, written out character by character and parsed back.
C28_Witness ==
  /\ probe.fn = "moneyToNumber"
  /\ probe.arg = <<"$450,000">>
  /\ probe.formatted = <<"$", "4", "5", "0", ",", "0", "0", "0">>
  /\ probe.back = 450000

\* C23: a request with refresh=1 is never answered from the cache and never
\* joins a ticket; it starts an extraction of its own under its key, and when
\* that extraction returns a record the record replaces the key's entry if it
\* has a value and leaves the cache alone otherwise.
C23_RefreshBypasses ==
  /\ [](/\ \A r \in DOMAIN resp :
            resp[r].refresh =>
              ~resp[r].cached /\ ~resp[r].deduped /\ resp[r].role \in {"initiator", "rejected"}
        /\ \A r \in Ids :
            (Pending(r) /\ reqs[r].refresh) => reqs[r].st = "initiator" /\ reqs[r].ticket = r)
  /\ [][\A r \in Ids :
          /\ (~Pending(r) /\ reqs'[r].st # "none" /\ reqs'[r].refresh) =>
               /\ ext'[r].phase \in {"queued", "running"}
               /\ ext[r].phase = "none"
               /\ inflight'[reqs'[r].key] = r
               /\ cache' = cache
          /\ (Pending(r) /\ reqs[r].refresh /\ r \in DOMAIN resp' /\ resp'[r].status = 200) =>
               IF HasRealValue(resp'[r].listing)
               THEN cache' = [k \in DOMAIN cache \cup {reqs[r].key} |->
                                IF k = reqs[r].key
                                THEN [age |-> 0, data |-> resp'[r].listing]
                                ELSE cache[k]]
               ELSE cache' = cache]_vars

\* A request with refresh=1 whose key had an entry was answered a record with
\* no value, from its own extraction, and the entry is still there.
C23_Witness ==
  \E r \in DOMAIN resp :
    /\ resp[r].refresh /\ resp[r].status = 200 /\ resp[r].role = "initiator"
    /\ ~HasRealValue(resp[r].listing)
    /\ resp[r].key \in DOMAIN cache

\* C29: at most one extraction's scrape is at work at any time, also when an
\* outer timeout has released the gate before the scrape it covered has ended.
C29_OneScrapeAtWork ==
  Cardinality({e \in Ids : ext[e].inner = "running"}) <= 1

\* C30: while an extraction is admitted and its promise has not settled, the
\* in-flight map holds its ticket under its key.
C30_TicketKeptWhileRunning ==
  \A e \in Ids :
    ext[e].phase = "running" =>
      (ext[e].key \in DOMAIN inflight /\ inflight[ext[e].key] = e)

\* C39: a scrape (direct fetch, browser navigation) runs only for a url
\* whose host is centris.ca, duproprio.com or a subdomain of one of them.
C39_FetchOnlyListingHosts ==
  \A e \in Ids :
    ext[e].inner = "running" =>
      LET host == hostOf(ext[e].url) IN host[Len(host)] \in {"centris.ca", "duproprio.com"}

\* C38: when shutdown() has completed, the context was closed before the
\* browser, both variables are null and every browser the service has
\* launched is closed.
C38_ShutdownClosesAll ==
  shut.pc = "done" =>
    /\ browser = 0 /\ context = 0
    /\ launched \subseteq shut.closed
    /\ shut.order \in {<<>>, <<"context", "browser">>}

\* C36: in part_001 (and part_000) scrapeDuProprio reports a failure to its
\* caller only when the rendered tier has failed: an exception of the
\* structured tier takes it to the rendered tier.
C36_StructuredFailureRecovered ==
  (variant = "part_001" /\ scrape.stage = "Failed") =>
    \E i \in 1..Len(scrape.tried) : scrape.tried[i].tier = "rendered"

\* C37: in part_001 the record kept for a key is never one whose price, beds,
\* baths, area and fee are all sentinel or null: the handler and the refresh
\* store a record only when it holds a real value.
C37_RealRecordKept ==
  (variant = "part_001" /\ scrape.stored # NoListing) =>
    \/ scrape.stored.price # <<"-">> \/ scrape.stored.condoFees # <<"-">>
    \/ scrape.stored.beds # NoNumber \/ scrape.stored.baths # NoNumber
    \/ scrape.stored.area # NoText

\* C32: a background refresh of part_001 that fails leaves no rejected
\* promise without a handler.
C32_RefreshRejectionHandled ==
  \A t \in DOMAIN tasks : tasks[t].phase # "unhandled"

\* C33: one call of gotoWithRetries makes at most two navigation attempts:
\* the first, and after a timeout one retry with "commit".
C33_AtMostTwoNavigations ==
  probe.fn = "gotoWithRetries" => Len(probe.gotos) <= 2

\* C34: safeEvaluate runs the script at most retries + 1 times; every run but
\* the last ended with a destroyed execution context; any other error is
\* thrown at once; when the retries are used up the context-destroyed error
\* is thrown.
C34_BoundedRetry ==
  probe.fn = "safeEvaluate" =>
    /\ Len(probe.runs) <= probe.retries + 1
    /\ \A k \in 1..Len(probe.runs) - 1 : probe.runs[k] = "destroyed"
    /\ \A k \in 1..Len(probe.runs) :
         probe.runs[k] \in {"timeout", "error"} =>
           k = Len(probe.runs) /\ probe.pc = "threw" /\ probe.thrown = probe.runs[k]
    /\ (probe.pc = "evaluate" /\ probe.runs # <<>>) => Len(probe.runs) <= probe.retries
    /\ (Len(probe.runs) = probe.retries + 1 /\ probe.runs[Len(probe.runs)] = "destroyed") =>
         probe.pc = "threw" /\ probe.thrown = "destroyed"

C34_Witness ==
  /\ probe.fn = "safeEvaluate" /\ probe.pc = "threw"
  /\ probe.runs = <<"destroyed", "destroyed", "destroyed">>

\* C35: waitForAny resolves with "" only when no selector materializes
\* within the timeout, and else with the selector that materializes first.
C35_EmptyOnlyWhenNoneFound ==
  probe.fn = "waitForAny" =>
    LET found == {i \in 1..Len(probe.waits) :
                    probe.waits[i].kind = "found" /\ probe.waits[i].at <= probe.timeoutMs}
    IN /\ probe.ret = "" <=> found = {}
       /\ \A i \in found :
            probe.waits[i].sel = probe.ret => \A j \in found : probe.waits[i].at <= probe.waits[j].at

\* C31: every request is answered, once: a request stops being handled
\* exactly in the step that sends its response, and in the end no request is
\* being handled and no extraction waits for the gate (a request is handled
\* once and only so many arrive, so each of them is answered and each queued
\* extraction is admitted).  The gate is released in each step in which an
\* admitted extraction settles and in no other; a queued extraction leaves
\* the queue only at its head, woken, and then runs.
C31_EveryRequestAnswered ==
  /\ <>[](~Busy /\ \A e \in Ids : ext[e].phase \notin {"queued", "woken"})
  /\ [][/\ \A r \in Ids :
             /\ (Pending(r) /\ ~Pending(r)') => r \in DOMAIN resp'
             /\ (~Pending(r) /\ Pending(r)') => (r = nextId /\ nextId' = r + 1)
             /\ (r \in DOMAIN resp' /\ resp' # resp) =>
                  \/ Pending(r) /\ ~Pending(r)'
                  \/ r = nextId /\ nextId' = r + 1 /\ ~Pending(r)'
        /\ \A e \in Ids :
             /\ (ext[e].phase = "running" /\ ext'[e].phase = "settled") =>
                  scrapeGate' = release(scrapeGate).gate
             /\ (ext[e].phase = "queued" /\ ext'[e].phase # "queued") =>
                  ext'[e].phase = "woken" /\ e = Head(scrapeGate.queue)
             /\ (ext[e].phase = "woken" /\ ext'[e].phase # "woken") =>
                  ext'[e].phase = "running"
        /\ scrapeGate'.active < scrapeGate.active =>
             Cardinality({e \in Ids : ext[e].phase = "running" /\ ext'[e].phase = "settled"}) = 1
       ]_vars

\* An extraction that waited in the queue is running while another waits.
C31_Witness ==
  \E e \in Ids :
    /\ ext[e].phase = "running" /\ reqs[e].elapsed > ext[e].ran
    /\ scrapeGate.queue # <<>>

====
